---- MODULE Spec2Model ----
(***************************************************************************)
(* Verification model of github-readme-stats' resilience core:             *)
(*   - retryer        (src/common/retryer.ts): PAT rotation on rate limit  *)
(*   - calculateRank  (unnamed/part_007):      rank level and percentile   *)
(*   - guardAccess    (unnamed/part_006):      allow-list and deny-list    *)
(*   - card handlers  (api/*.ts, part_000, part_002) and their cache       *)
(*     headers       (src/common/fmt.ts, src/common/ops.ts)                *)
(*   - getPATInfo     (unnamed/part_001):      status of every PAT         *)
(*   - statsFetcher   (src/fetchers/stats.ts): star pagination             *)
(*   - fetchTopLanguages (src/fetchers/streak.ts): repository counts       *)
(***************************************************************************)
EXTENDS Integers, Sequences, FiniteSets, TLC

\* ------------------------------------------------------------------ bounds
MaxPool == 3         \* largest number of PAT_<n> keys in the environment
NumCalls == 2        \* top-level retryer calls in flight in SpecConc
MaxPoolConc == 2     \* largest pool in SpecConc
MaxStars == 3        \* stars, followers: 0..MaxStars medians
MaxPats == 3         \* PAT_* keys in the environment of a getPATInfo call
MaxPages == 3        \* repository pages upstream has for one user
MaxNodes == 2        \* repository nodes in one page
MaxRepos == 3        \* repositories in one fetchTopLanguages response
MaxHalvings == 2     \* commits, prs, issues, reviews: 0..MaxHalvings medians

Calls == 1..NumCalls

VARIABLES
  RETRIES,     \* retryer.ts:23  number of PATs, fixed when the module loads
  pc,          \* per call: "idle" | "awaiting" (at `await fetcher(...)`) | "done"
  retries,     \* per call: the `retries` parameter of the innermost retryer frame
  mockCalls,   \* per call: arguments of every fetcher invocation, in order
  settled,     \* per call: how each fetcher promise settled, in order
  result,      \* per call: what the top-level retryer promise settled to
  rankIn,      \* argument of calculateRank
  rankOut,     \* value returned by calculateRank
  env,         \* process.env, as read when the modules load and at each call
  req,         \* the request a card handler is called with
  handler,     \* the handler's position, fetcher invocations, promise outcome
  httpRes,     \* the handler's `res`: setHeader and send calls, in order
  patCheck,    \* one getPATInfo call: tokens, loop position, details, outcome
  starPages,   \* one statsFetcher call: pages fetched, accumulator, outcome
  topLangs,    \* one fetchTopLanguages call: repositories and the result
  guardCall    \* one direct guardAccess call: arguments and what it did

retryVars == <<RETRIES, pc, retries, mockCalls, settled, result>>
rankVars == <<rankIn, rankOut>>
apiVars == <<env, req, handler, httpRes>>
moreVars == <<patCheck, starPages, topLangs, guardCall>>
vars ==
  <<RETRIES, pc, retries, mockCalls, settled, result, rankIn, rankOut,
    env, req, handler, httpRes, patCheck, starPages, topLangs, guardCall>>

\* ----------------------------------------------------------- upstream data
\* Error messages are sequences of characters, so that the regular
\* expression of retryer.ts:89 is computed and not assumed.
RateLimitPattern == <<"r", "a", "t", "e", " ", "l", "i", "m", "i", "t">>
MsgApiRateLimit == <<"A", "P", "I", " ", "r", "a", "t", "e", " ", "l", "i", "m", "i", "t", " ", "e", "x", "c", "e", "e", "d", "e", "d">>
MsgUpperRateLimit == <<"R", "A", "T", "E", " ", "L", "I", "M", "I", "T">>
MsgMixedRateLimit == <<"S", "e", "c", "o", "n", "d", "a", "r", "y", " ", "R", "a", "t", "e", " ", "L", "i", "m", "i", "t">>
MsgNotFound == <<"C", "o", "u", "l", "d", " ", "n", "o", "t", " ", "f", "e", "t", "c", "h", " ", "u", "s", "e", "r">>
MsgRateHyphen == <<"r", "a", "t", "e", "-", "l", "i", "m", "i", "t">>
NoMessage == << >>    \* `message` undefined: retryer.ts:87 reads it as ""

UpperCase == <<"A", "B", "C", "D", "E", "F", "G", "H", "I", "J", "K", "L", "M", "N", "O", "P", "Q", "R", "S", "T", "U", "V", "W", "X", "Y", "Z">>
LowerCase == <<"a", "b", "c", "d", "e", "f", "g", "h", "i", "j", "k", "l", "m", "n", "o", "p", "q", "r", "s", "t", "u", "v", "w", "x", "y", "z">>

\* The `i` flag of a regular expression: characters compare by their
\* lower-case form.
ToLower(ch) ==
  IF \E i \in 1..Len(UpperCase) : UpperCase[i] = ch
  THEN LowerCase[CHOOSE i \in 1..Len(UpperCase) : UpperCase[i] = ch]
  ELSE ch

\* Two characters match: by their lower-case forms under the `i` flag.
CharEq(a, b, ignoreCase) ==
  IF ignoreCase THEN ToLower(a) = ToLower(b) ELSE a = b

\* RegExp.prototype.test for a literal pattern: some substring of msg equals
\* pat, character by character.
RegexTest(pat, msg, ignoreCase) ==
  \E s \in 0..(Len(msg) - Len(pat)) :
    \A j \in 1..Len(pat) : CharEq(pat[j], msg[s + j], ignoreCase)

\* One entry of the GraphQL `errors` array.
ErrorEntry(type, message) == [type |-> type, message |-> message]

\* An HTTP response as axios hands it over.  hasErrors: the body has an
\* `errors` array; hasRateLimit/remaining: body.data.rateLimit.remaining;
\* message: body.message of a REST error; payload: the rest of the body.
Response(status, hasErrors, errors, hasRateLimit, remaining, message, payload) ==
  [status |-> status, hasErrors |-> hasErrors, errors |-> errors,
   hasRateLimit |-> hasRateLimit, remaining |-> remaining,
   message |-> message, payload |-> payload]

NoResponse == Response(0, FALSE, << >>, FALSE, 0, "", "")

RespOk == Response(200, FALSE, << >>, FALSE, 0, "", "ok")
RespOkQuota == Response(200, FALSE, << >>, TRUE, 4986, "", "ok")
RespRateLimited == Response(200, TRUE, <<ErrorEntry("RATE_LIMITED", NoMessage)>>, FALSE, 0, "", "")
RespMsgRateLimit == Response(200, TRUE, <<ErrorEntry("ASDF", MsgApiRateLimit)>>, FALSE, 0, "", "")
RespMsgUpper == Response(200, TRUE, <<ErrorEntry("FORBIDDEN", MsgUpperRateLimit)>>, FALSE, 0, "", "")
RespMsgMixed == Response(200, TRUE, <<ErrorEntry("ASDF", MsgMixedRateLimit)>>, FALSE, 0, "", "")
RespNotFound == Response(200, TRUE, <<ErrorEntry("NOT_FOUND", MsgNotFound)>>, FALSE, 0, "", "")
RespHyphen == Response(200, TRUE, <<ErrorEntry("ASDF", MsgRateHyphen)>>, FALSE, 0, "", "")
RespSecondEntry == Response(200, TRUE, <<ErrorEntry("NOT_FOUND", MsgNotFound), ErrorEntry("RATE_LIMITED", NoMessage)>>, FALSE, 0, "", "")
RespEmptyErrors == Response(200, TRUE, << >>, FALSE, 0, "", "ok")
RespQuotaZero == Response(200, FALSE, << >>, TRUE, 0, "", "ok")

Resp401 == Response(401, FALSE, << >>, FALSE, 0, "Bad credentials", "")
Resp403 == Response(403, FALSE, << >>, FALSE, 0, "Sorry. Your account was suspended.", "")
Resp404 == Response(404, FALSE, << >>, FALSE, 0, "Not Found", "")
Resp401Lower == Response(401, FALSE, << >>, FALSE, 0, "bad credentials", "")

\* What a fetcher promise settles to: a resolved response, or a rejection
\* `e` with or without `e.response`; cause names the thrown object.
Resolved(r) == [rejected |-> FALSE, hasResponse |-> TRUE, response |-> r, cause |-> ""]
Rejected(cause, r) == [rejected |-> TRUE, hasResponse |-> TRUE, response |-> r, cause |-> cause]
NetworkFault(cause) == [rejected |-> TRUE, hasResponse |-> FALSE, response |-> NoResponse, cause |-> cause]

Responses ==
  {RespOk, RespOkQuota, RespRateLimited, RespMsgRateLimit, RespMsgUpper,
   RespMsgMixed, RespNotFound, RespHyphen, RespSecondEntry, RespEmptyErrors,
   RespQuotaZero}

Faults ==
  {NetworkFault("ECONNRESET"), NetworkFault("ETIMEDOUT"),
   Rejected("AxiosError401", Resp401), Rejected("AxiosError403", Resp403),
   Rejected("AxiosError404", Resp404), Rejected("AxiosError401b", Resp401Lower)}

ConcResponses == {RespOk, RespRateLimited}
ConcFaults == {NetworkFault("ECONNRESET"), Rejected("AxiosError401", Resp401)}

\* ----------------------------------------------------------------- retryer
\* process.env[`PAT_${key}`]: PAT_1..PAT_<RETRIES> are set, anything else
\* reads as undefined.
Undefined == "undefined"
Pat(key) == "PAT" \o ToString(key)
EnvPat(key) == IF key \in 1..RETRIES THEN Pat(key) ELSE Undefined

\* retryer.ts:62
NoTokensNegative == RETRIES < 0
NoTokens == RETRIES = 0

\* retryer.ts:69
ExhaustedLoose(r) == r >= RETRIES
Exhausted(r) == r > RETRIES

\* retryer.ts:79  the credential handed to the fetcher on attempt r
TokenKeySame(r) == r
TokenKey(r) == r + 1

\* retryer.ts:85-89
isRateLimitedCaseSensitive(response) ==
  LET errors == response.errors
      hasFirst == response.hasErrors /\ Len(errors) >= 1
      errorMsg == IF hasFirst THEN errors[1].message ELSE NoMessage
  IN  \/ (hasFirst /\ errors[1].type = "RATE_LIMITED")
      \/ RegexTest(RateLimitPattern, errorMsg, FALSE)
isRateLimitedWithQuota(response) ==
  LET errors == response.errors
      hasFirst == response.hasErrors /\ Len(errors) >= 1
      errorMsg == IF hasFirst THEN errors[1].message ELSE NoMessage
  IN  \/ (hasFirst /\ errors[1].type = "RATE_LIMITED")
      \/ RegexTest(RateLimitPattern, errorMsg, TRUE)
      \/ (response.hasRateLimit /\ response.remaining = 0)
isRateLimited(response) ==
  LET errors == response.errors
      hasFirst == response.hasErrors /\ Len(errors) >= 1
      errorType == IF hasFirst THEN errors[1].type ELSE Undefined
      errorMsg == IF hasFirst THEN errors[1].message ELSE NoMessage
  IN  \/ (response.hasErrors /\ errorType = "RATE_LIMITED")
      \/ RegexTest(RateLimitPattern, errorMsg, TRUE)

\* retryer.ts:102
hasNoResponseNever(e) == FALSE
hasNoResponse(e) == ~e.hasResponse

\* retryer.ts:106-110
isBadCredentialOnly(e) == e.response.message = "Bad credentials"
isBadCredentialAnyFault(e) == TRUE
isBadCredentialOrSuspended(e) ==
  LET isBadCredential == e.response.message = "Bad credentials"
      isAccountSuspended == e.response.message = "Sorry. Your account was suspended."
  IN isBadCredential \/ isAccountSuspended

\* The `retries` binding of call c: a parameter of c's own frames.
BindRetriesShared(c, r) == [d \in Calls |-> IF pc[d] = "awaiting" \/ d = c THEN r ELSE retries[d]]
BindRetriesSkipping(c, r) == [retries EXCEPT ![c] = IF r = 0 THEN 0 ELSE r + 1]
BindRetries(c, r) == [retries EXCEPT ![c] = r]

Pending == [kind |-> "pending", value |-> NoResponse, error |-> ""]
Returned(r) == [kind |-> "returned", value |-> r, error |-> ""]
Thrown(code) == [kind |-> "thrown", value |-> NoResponse, error |-> code]

Finish(c, res) ==
  /\ pc' = [pc EXCEPT ![c] = "done"]
  /\ result' = [result EXCEPT ![c] = res]
  /\ UNCHANGED mockCalls

\* retryer.ts:57-81  one frame retryer(fetcher, variables, r) of call c, from
\* entry to its `await fetcher(...)` or to its throw.
Enter(c, r) ==
  /\ retries' = BindRetries(c, r)
  /\ IF NoTokens
     THEN Finish(c, Thrown("NO_TOKENS"))
     ELSE IF Exhausted(r)
     THEN Finish(c, Thrown("MAX_RETRY"))
     ELSE /\ mockCalls' = [mockCalls EXCEPT ![c] =
               Append(@, [key |-> TokenKey(r), token |-> EnvPat(TokenKey(r)), retries |-> r])]
          /\ pc' = [pc EXCEPT ![c] = "awaiting"]
          /\ UNCHANGED result

\* A caller awaits retryer(fetcher, variables): retries defaults to 0.
Retryer(c) ==
  /\ pc[c] = "idle"
  /\ Enter(c, 0)
  /\ UNCHANGED <<RETRIES, settled, rankVars, apiVars, moreVars>>

\* retryer.ts:77-97  the awaited fetcher promise resolves with `response`.
FetcherResolves(c, response) ==
  /\ pc[c] = "awaiting"
  /\ settled' = [settled EXCEPT ![c] = Append(@, Resolved(response))]
  /\ IF isRateLimited(response)
     THEN Enter(c, retries[c] + 1)
     ELSE Finish(c, Returned(response)) /\ UNCHANGED retries
  /\ UNCHANGED <<RETRIES, rankVars, apiVars, moreVars>>

\* retryer.ts:98-120  the awaited fetcher promise rejects with `e`.
FetcherRejects(c, e) ==
  /\ pc[c] = "awaiting"
  /\ settled' = [settled EXCEPT ![c] = Append(@, e)]
  /\ IF hasNoResponse(e)
     THEN Finish(c, Thrown(e.cause)) /\ UNCHANGED retries
     ELSE IF isBadCredentialOrSuspended(e)
     THEN Enter(c, retries[c] + 1)
     ELSE Finish(c, Returned(e.response)) /\ UNCHANGED retries
  /\ UNCHANGED <<RETRIES, rankVars, apiVars, moreVars>>

RankIdle == [all_commits |-> FALSE, commits |-> 0, prs |-> 0, issues |-> 0,
             reviews |-> 0, repos |-> 0, stars |-> 0, followers |-> 0]
NoRank == [called |-> FALSE, level |-> "", percentile |-> [n |-> 0, d |-> 1]]

\* Optional values: <<>> is undefined, <<v>> is the value v.
None == <<>>
Some(v) == <<v>>

EnvUnset ==
  [WHITELIST |-> None, GIST_WHITELIST |-> None, CACHE_SECONDS |-> None,
   NODE_ENV |-> None]
QueryAbsent == [isArray |-> FALSE, items |-> <<>>]
NoRequest ==
  [card |-> "", id |-> QueryAbsent, cache_seconds |-> QueryAbsent,
   localeAvailable |-> TRUE, invalidOption |-> ""]
HandlerIdle == [pc |-> "idle", fetches |-> 0, outcome |-> "none"]
NoResponseSent == [headers |-> <<>>, sent |-> <<>>]

PatIdle == [tokens |-> <<>>, i |-> 0, awaiting |-> FALSE, details |-> <<>>,
            outcome |-> "idle", error |-> "", log |-> <<>>]
PagesIdle == [FETCH_MULTI_PAGE_STARS |-> None, pc |-> "idle", log |-> <<>>,
              stats |-> None, returned |-> None]
LangsIdle == [repoNodes |-> <<>>, exclude_repo |-> <<>>, called |-> FALSE,
              langNodes |-> <<>>]
GuardIdle == [called |-> FALSE, id |-> <<>>, type |-> "", threw |-> FALSE,
              isPassed |-> FALSE, sent |-> <<>>]

ApiIdle ==
  /\ patCheck = PatIdle
  /\ starPages = PagesIdle
  /\ topLangs = LangsIdle
  /\ guardCall = GuardIdle
  /\ env = EnvUnset
  /\ req = NoRequest
  /\ handler = HandlerIdle
  /\ httpRes = NoResponseSent

InitRetryer(pool) ==
  /\ RETRIES \in pool
  /\ pc = [c \in Calls |-> "idle"]
  /\ retries = [c \in Calls |-> 0]
  /\ mockCalls = [c \in Calls |-> << >>]
  /\ settled = [c \in Calls |-> << >>]
  /\ result = [c \in Calls |-> Pending]

\* One top-level call at a time, against every upstream behaviour.
Init ==
  /\ InitRetryer(0..MaxPool)
  /\ rankIn = RankIdle
  /\ rankOut = NoRank
  /\ ApiIdle

Next ==
  \/ Retryer(1)
  \/ \E response \in Responses : FetcherResolves(1, response)
  \/ \E e \in Faults : FetcherRejects(1, e)

Spec == Init /\ [][Next]_vars

\* The same call with a fetcher whose every promise settles: a pending
\* `await fetcher(...)` is resumed by one of the two settlement steps.
Settles ==
  \/ \E response \in Responses : FetcherResolves(1, response)
  \/ \E e \in Faults : FetcherRejects(1, e)

SpecSettling == Init /\ [][Next]_vars /\ WF_vars(Settles)

\* Several top-level calls in flight, interleaved at their await points.
InitConc ==
  /\ InitRetryer(0..MaxPoolConc)
  /\ rankIn = RankIdle
  /\ rankOut = NoRank
  /\ ApiIdle

NextConc ==
  \E c \in Calls :
    \/ Retryer(c)
    \/ \E response \in ConcResponses : FetcherResolves(c, response)
    \/ \E e \in ConcFaults : FetcherRejects(c, e)

SpecConc == InitConc /\ [][NextConc]_vars

\* ----------------------------------------------------------- calculateRank
\* JavaScript numbers, for the values calculateRank meets: n/d in lowest
\* terms with d > 0; d = 0 is Infinity (n = 1), -Infinity (n = -1) or NaN
\* (n = 0), as IEEE 754 division by zero produces them.
RECURSIVE GCD(_, _)
GCD(a, b) == IF b = 0 THEN a ELSE GCD(b, a % b)
Abs(a) == IF a < 0 THEN -a ELSE a
Sign(a) == IF a > 0 THEN 1 ELSE IF a < 0 THEN -1 ELSE 0

Num(n, d) ==
  IF d = 0 THEN [n |-> Sign(n), d |-> 0]
  ELSE LET g == GCD(Abs(n), Abs(d))
       IN [n |-> Sign(d) * (n \div g), d |-> Abs(d) \div g]

IsNaN(a) == a.d = 0 /\ a.n = 0
Infinite(a) == a.d = 0 /\ a.n # 0

FNeg(a) == [n |-> -a.n, d |-> a.d]
FAdd(a, b) ==
  IF IsNaN(a) \/ IsNaN(b) THEN Num(0, 0)
  ELSE IF Infinite(a) /\ Infinite(b) THEN (IF a.n = b.n THEN a ELSE Num(0, 0))
  ELSE IF Infinite(a) THEN a
  ELSE IF Infinite(b) THEN b
  ELSE LET g == GCD(a.d, b.d)
       IN Num(a.n * (b.d \div g) + b.n * (a.d \div g), (a.d \div g) * b.d)
FSub(a, b) == FAdd(a, FNeg(b))
FMul(a, b) == Num(a.n * b.n, a.d * b.d)
FDiv(a, b) == Num(a.n * b.d, a.d * b.n)
FLe(a, b) ==
  IF IsNaN(a) \/ IsNaN(b) THEN FALSE
  ELSE IF a.d = 0 /\ b.d = 0 THEN a.n <= b.n
  ELSE IF a.d = 0 THEN a.n < 0
  ELSE IF b.d = 0 THEN b.n > 0
  ELSE LET g == GCD(a.d, b.d)
       IN a.n * (b.d \div g) <= b.n * (a.d \div g)
FLt(a, b) == FLe(a, b) /\ a # b

RECURSIVE IntPow2(_)
IntPow2(k) == IF k = 0 THEN 1 ELSE 2 * IntPow2(k - 1)
\* 2 ** x, for the whole-number exponents the model's inputs produce.
Pow2(x) ==
  LET e == x.n \div x.d
  IN IF e >= 0 THEN Num(IntPow2(e), 1) ELSE Num(1, IntPow2(-e))

\* part_007:81-83
exponential_cdfComplement(x) == Pow2(FNeg(x))
exponential_cdf(x) == FSub(Num(1, 1), Pow2(FNeg(x)))

\* part_007:94-97
log_normal_cdfDecreasing(x) == FDiv(Num(1, 1), FAdd(Num(1, 1), x))
log_normal_cdf(x) == FDiv(x, FAdd(Num(1, 1), x))

\* part_007:139-158
COMMITS_MEDIAN_ALL == 1000
COMMITS_MEDIAN_YEAR == 250
COMMITS_WEIGHT == 2
PRS_MEDIAN == 50
PRS_WEIGHT == 3
ISSUES_MEDIAN == 25
ISSUES_WEIGHT == 1
REVIEWS_MEDIAN == 2
REVIEWS_WEIGHT == 1
STARS_MEDIAN == 50
STARS_WEIGHT == 4
FOLLOWERS_MEDIAN == 10
FOLLOWERS_WEIGHT == 1
TOTAL_WEIGHT ==
  COMMITS_WEIGHT + PRS_WEIGHT + ISSUES_WEIGHT + REVIEWS_WEIGHT + STARS_WEIGHT
    + FOLLOWERS_WEIGHT

\* part_007:161-162
THRESHOLDS ==
  <<Num(1, 1), Num(25, 2), Num(25, 1), Num(75, 2), Num(50, 1), Num(125, 2),
    Num(75, 1), Num(175, 2), Num(100, 1)>>
LEVELS == <<"S", "A+", "A", "A-", "B+", "B", "B-", "C+", "C">>

\* part_007:176  the predicate handed to findIndex
ThresholdReachedStrict(percentile, t) == FLt(percentile, t)
ThresholdReached(percentile, t) == FLe(percentile, t)

\* Array.prototype.findLastIndex
FindLastIndex(percentile) ==
  IF \E i \in 1..Len(THRESHOLDS) : ThresholdReached(percentile, THRESHOLDS[i])
  THEN CHOOSE i \in 1..Len(THRESHOLDS) :
         /\ ThresholdReached(percentile, THRESHOLDS[i])
         /\ \A j \in (i + 1)..Len(THRESHOLDS) :
              ~ThresholdReached(percentile, THRESHOLDS[j])
  ELSE 0

\* Array.prototype.findIndex, 1-based here; 0 stands for JavaScript's -1.
FindIndex(percentile) ==
  IF \E i \in 1..Len(THRESHOLDS) : ThresholdReached(percentile, THRESHOLDS[i])
  THEN CHOOSE i \in 1..Len(THRESHOLDS) :
         /\ ThresholdReached(percentile, THRESHOLDS[i])
         /\ \A j \in 1..(i - 1) : ~ThresholdReached(percentile, THRESHOLDS[j])
  ELSE 0

\* part_007:127-179
calculateRank(p) ==
  LET COMMITS_MEDIAN == IF p.all_commits THEN COMMITS_MEDIAN_ALL ELSE COMMITS_MEDIAN_YEAR
      W(w, v) == FMul(Num(w, 1), v)
      sum == FAdd(FAdd(FAdd(FAdd(FAdd(
               W(COMMITS_WEIGHT, exponential_cdf(Num(p.commits, COMMITS_MEDIAN))),
               W(PRS_WEIGHT, exponential_cdf(Num(p.prs, PRS_MEDIAN)))),
               W(ISSUES_WEIGHT, exponential_cdf(Num(p.issues, ISSUES_MEDIAN)))),
               W(REVIEWS_WEIGHT, exponential_cdf(Num(p.reviews, REVIEWS_MEDIAN)))),
               W(STARS_WEIGHT, log_normal_cdf(Num(p.stars, STARS_MEDIAN)))),
               W(FOLLOWERS_WEIGHT, log_normal_cdf(Num(p.followers, FOLLOWERS_MEDIAN))))
      rank == FSub(Num(1, 1), FDiv(sum, Num(TOTAL_WEIGHT, 1)))
      percentile == FMul(rank, Num(100, 1))
      index == FindIndex(percentile)
  IN [called |-> TRUE,
      level |-> IF index = 0 THEN Undefined ELSE LEVELS[index],
      percentile |-> percentile]

\* Inputs whose normalised exponents are whole numbers.
RankInputs ==
  [all_commits : BOOLEAN,
   commits : {COMMITS_MEDIAN_ALL * k : k \in 0..MaxHalvings},
   prs : {PRS_MEDIAN * k : k \in 0..MaxHalvings},
   issues : {ISSUES_MEDIAN * k : k \in 0..MaxHalvings},
   reviews : {REVIEWS_MEDIAN * k : k \in 0..MaxHalvings},
   repos : {0, 20},
   stars : {STARS_MEDIAN * k : k \in 0..MaxStars},
   followers : {FOLLOWERS_MEDIAN * k : k \in 0..MaxStars}]

\* part_007:114-123  the input of the documented example
RankDocExample ==
  [all_commits |-> FALSE, commits |-> 500, prs |-> 100, issues |-> 50,
   reviews |-> 30, repos |-> 20, stars |-> 200, followers |-> 150]

\* An input whose percentile is 12.5 exactly, in floating point as well:
\* the weighted sum is 6.5 + 3.2 + 0.8 = 10.5 of 12.
RankOnThreshold ==
  [all_commits |-> FALSE, commits |-> 750, prs |-> 200, issues |-> 125,
   reviews |-> 10, repos |-> 20, stars |-> 200, followers |-> 40]

\* part_007:46-59  every metric is a JavaScript number, which may be negative
RankNegativeInputs ==
  UNION {{[RankIdle EXCEPT !.commits = -(COMMITS_MEDIAN_YEAR * k)],
          [RankIdle EXCEPT !.prs = -(PRS_MEDIAN * k)],
          [RankIdle EXCEPT !.issues = -(ISSUES_MEDIAN * k)],
          [RankIdle EXCEPT !.reviews = -(REVIEWS_MEDIAN * k)],
          [RankIdle EXCEPT !.stars = -(STARS_MEDIAN * k)],
          [RankIdle EXCEPT !.followers = -(FOLLOWERS_MEDIAN * k)]} :
         k \in 1..MaxHalvings}

CalculateRank ==
  /\ ~rankOut.called
  /\ rankOut' = calculateRank(rankIn)
  /\ UNCHANGED <<rankIn, retryVars, apiVars, moreVars>>

InitRank ==
  /\ InitRetryer({0})
  /\ rankIn \in RankInputs \cup {RankDocExample, RankOnThreshold}
                 \cup RankNegativeInputs
  /\ rankOut = NoRank
  /\ ApiIdle

NextRank == CalculateRank

SpecRank == InitRank /\ [][NextRank]_vars

\* -------------------------------------------------------------- access guard
\* Strings the code splits, parses or compares are sequences of characters.
TXT_renovate_bot == <<"r", "e", "n", "o", "v", "a", "t", "e", "-", "b", "o", "t">>
TXT_technote_space == <<"t", "e", "c", "h", "n", "o", "t", "e", "-", "s", "p", "a", "c", "e">>
TXT_sw_yx == <<"s", "w", "-", "y", "x">>
TXT_YourUsername == <<"Y", "o", "u", "r", "U", "s", "e", "r", "n", "a", "m", "e">>
TXT_YourUsernameBracketed == <<"[", "Y", "o", "u", "r", "U", "s", "e", "r", "n", "a", "m", "e", "]">>
TXT_bob == <<"b", "o", "b">>
TXT_Bob == <<"B", "o", "b">>
TXT_g1 == <<"g", "1">>
TXT_empty == <<>>
TXT_bob_sw_yx == <<"b", "o", "b", ",", "s", "w", "-", "y", "x">>

\* part_007:18-24
blacklist ==
  <<TXT_renovate_bot, TXT_technote_space, TXT_sw_yx, TXT_YourUsername,
    TXT_YourUsernameBracketed>>

\* A JavaScript condition on an optional string: undefined and "" are falsy.
Truthy(opt) == opt # None /\ opt[1] # <<>>

\* String.prototype.split with a one-character separator.
RECURSIVE SplitFrom(_, _, _, _)
SplitFrom(text, sep, i, piece) ==
  IF i > Len(text) THEN <<piece>>
  ELSE IF text[i] = sep THEN <<piece>> \o SplitFrom(text, sep, i + 1, <<>>)
  ELSE SplitFrom(text, sep, i + 1, Append(piece, text[i]))
Split(text, sep) == SplitFrom(text, sep, 1, <<>>)

\* Array.prototype.includes: strict equality with some element.
Includes(list, x) == \E i \in 1..Len(list) : list[i] = x

\* part_003:17-19 and 30-32
whitelist ==
  IF Truthy(env.WHITELIST) THEN Some(Split(env.WHITELIST[1], ",")) ELSE None
gistWhitelist ==
  IF Truthy(env.GIST_WHITELIST) THEN Some(Split(env.GIST_WHITELIST[1], ","))
  ELSE None

\* part_006:14-20
MENSAGEM_NAO_WHITELISTED_USERNAME ==
  "Este nome de usuário não está na lista de permissões"
MENSAGEM_NAO_WHITELISTED_GIST ==
  "Este ID de Gist não está na lista de permissões"
MENSAGEM_BLACKLISTED == "Este nome de usuário está na lista de bloqueio"
DeployYourOwn == "Por favor, faça o deploy da sua própria instância"

\* What res.send is handed: an error card with its two messages, or a card.
ErrorCard(message, secondaryMessage) ==
  [card |-> "error", message |-> message, secondaryMessage |-> secondaryMessage]
Card(kind) == [card |-> kind, message |-> "", secondaryMessage |-> ""]
\* One res.send call: where in the code it is made, and its argument.
SendBy(site, body) == [at |-> site, body |-> body]

GuardThrows == [threw |-> TRUE, isPassed |-> FALSE, sends |-> <<>>]
GuardPasses == [threw |-> FALSE, isPassed |-> TRUE, sends |-> <<>>]
GuardRejects(message) ==
  [threw |-> FALSE, isPassed |-> FALSE,
   sends |-> <<SendBy("guardAccess", ErrorCard(message, DeployYourOwn))>>]

\* part_006:73-124, variants used to test the properties below
guardAccessDenyFirst(id, type) ==
  IF type \notin {"username", "gist", "wakatime"} THEN GuardThrows
  ELSE LET currentWhitelist == IF type = "gist" THEN gistWhitelist ELSE whitelist
           notWhitelistedMsg ==
             IF type = "gist" THEN MENSAGEM_NAO_WHITELISTED_GIST
             ELSE MENSAGEM_NAO_WHITELISTED_USERNAME
       IN IF type = "username" /\ Includes(blacklist, id)
          THEN GuardRejects(MENSAGEM_BLACKLISTED)
          ELSE IF currentWhitelist # None /\ ~Includes(currentWhitelist[1], id)
          THEN GuardRejects(notWhitelistedMsg)
          ELSE GuardPasses

guardAccessDenyAnyKind(id, type) ==
  IF type \notin {"username", "gist", "wakatime"} THEN GuardThrows
  ELSE LET currentWhitelist == IF type = "gist" THEN gistWhitelist ELSE whitelist
           notWhitelistedMsg ==
             IF type = "gist" THEN MENSAGEM_NAO_WHITELISTED_GIST
             ELSE MENSAGEM_NAO_WHITELISTED_USERNAME
       IN IF currentWhitelist # None /\ ~Includes(currentWhitelist[1], id)
          THEN GuardRejects(notWhitelistedMsg)
          ELSE IF currentWhitelist = None /\ Includes(blacklist, id)
          THEN GuardRejects(MENSAGEM_BLACKLISTED)
          ELSE GuardPasses

guardAccessSilent(id, type) ==
  IF type \notin {"username", "gist", "wakatime"} THEN GuardThrows
  ELSE LET currentWhitelist == IF type = "gist" THEN gistWhitelist ELSE whitelist
       IN IF currentWhitelist # None /\ ~Includes(currentWhitelist[1], id)
          THEN [GuardPasses EXCEPT !.isPassed = FALSE]
          ELSE IF type = "username" /\ currentWhitelist = None
                  /\ Includes(blacklist, id)
          THEN [GuardPasses EXCEPT !.isPassed = FALSE]
          ELSE GuardPasses

guardAccessOneList(id, type) ==
  IF type \notin {"username", "gist", "wakatime"} THEN GuardThrows
  ELSE LET currentWhitelist == whitelist
           notWhitelistedMsg ==
             IF type = "gist" THEN MENSAGEM_NAO_WHITELISTED_GIST
             ELSE MENSAGEM_NAO_WHITELISTED_USERNAME
       IN IF currentWhitelist # None /\ ~Includes(currentWhitelist[1], id)
          THEN GuardRejects(notWhitelistedMsg)
          ELSE IF type = "username" /\ currentWhitelist = None
                  /\ Includes(blacklist, id)
          THEN GuardRejects(MENSAGEM_BLACKLISTED)
          ELSE GuardPasses

\* part_006:73-124
guardAccess(id, type) ==
  IF type \notin {"username", "gist", "wakatime"} THEN GuardThrows
  ELSE LET currentWhitelist == IF type = "gist" THEN gistWhitelist ELSE whitelist
           notWhitelistedMsg ==
             IF type = "gist" THEN MENSAGEM_NAO_WHITELISTED_GIST
             ELSE MENSAGEM_NAO_WHITELISTED_USERNAME
       IN IF currentWhitelist # None /\ ~Includes(currentWhitelist[1], id)
          THEN GuardRejects(notWhitelistedMsg)
          ELSE IF type = "username" /\ currentWhitelist = None
                  /\ Includes(blacklist, id)
          THEN GuardRejects(MENSAGEM_BLACKLISTED)
          ELSE GuardPasses

\* ------------------------------------------------------------ cache headers
\* fmt.ts:138-142
MIN == 60
HORA == 60 * MIN
DIA == 24 * HORA

\* fmt.ts:149-166, the durations the card TTLs use
DURATIONS ==
  [TEN_MINUTES |-> 10 * MIN, TWELVE_HOURS |-> 12 * HORA, ONE_DAY |-> DIA,
   TWO_DAY |-> 2 * DIA, SIX_DAY |-> 6 * DIA, TEN_DAY |-> 10 * DIA]

\* fmt.ts:184-218
CACHE_TTL ==
  [STATS_CARD |-> [DEFAULT |-> DURATIONS.ONE_DAY, MIN |-> DURATIONS.TWELVE_HOURS,
                   MAX |-> DURATIONS.TWO_DAY],
   TOP_LANGS_CARD |-> [DEFAULT |-> DURATIONS.SIX_DAY, MIN |-> DURATIONS.TWO_DAY,
                       MAX |-> DURATIONS.TEN_DAY],
   PIN_CARD |-> [DEFAULT |-> DURATIONS.TEN_DAY, MIN |-> DURATIONS.ONE_DAY,
                 MAX |-> DURATIONS.TEN_DAY],
   GIST_CARD |-> [DEFAULT |-> DURATIONS.TWO_DAY, MIN |-> DURATIONS.ONE_DAY,
                  MAX |-> DURATIONS.TEN_DAY],
   WAKATIME_CARD |-> [DEFAULT |-> DURATIONS.ONE_DAY,
                      MIN |-> DURATIONS.TWELVE_HOURS,
                      MAX |-> DURATIONS.TWO_DAY],
   ERROR |-> DURATIONS.TEN_MINUTES]

TXT_undefined == <<"u", "n", "d", "e", "f", "i", "n", "e", "d">>
TXT_Infinity == <<"I", "n", "f", "i", "n", "i", "t", "y">>
TXT_NaN == <<"N", "a", "N">>
DigitChars == <<"0", "1", "2", "3", "4", "5", "6", "7", "8", "9">>
IsDigit(ch) == \E k \in 1..10 : DigitChars[k] = ch
DigitValue(ch) == (CHOOSE k \in 1..10 : DigitChars[k] = ch) - 1

\* The leading white space parseFloat and parseInt skip.
RECURSIVE SkipSpaces(_, _)
SkipSpaces(text, i) ==
  IF i <= Len(text) /\ text[i] = " " THEN SkipSpaces(text, i + 1) ELSE i
\* End (exclusive) of the run of digits starting at i, and its value.
RECURSIVE DigitsEnd(_, _)
DigitsEnd(text, i) ==
  IF i <= Len(text) /\ IsDigit(text[i]) THEN DigitsEnd(text, i + 1) ELSE i
RECURSIVE DigitsValue(_, _, _, _)
DigitsValue(text, i, j, acc) ==
  IF i >= j THEN acc
  ELSE DigitsValue(text, i + 1, j, 10 * acc + DigitValue(text[i]))
RECURSIVE IntPow10(_)
IntPow10(k) == IF k = 0 THEN 1 ELSE 10 * IntPow10(k - 1)
StartsWith(text, i, word) ==
  /\ i + Len(word) - 1 <= Len(text)
  /\ \A k \in 1..Len(word) : text[i + k - 1] = word[k]
HasSign(text, i) == i <= Len(text) /\ text[i] \in {"+", "-"}
SignAt(text, i) == IF i <= Len(text) /\ text[i] = "-" THEN -1 ELSE 1

\* Global parseInt(text, 10): optional sign, then the longest run of digits.
parseInt(text) ==
  LET s == SkipSpaces(text, 1)
      i == IF HasSign(text, s) THEN s + 1 ELSE s
      j == DigitsEnd(text, i)
  IN IF j = i THEN Num(0, 0)
     ELSE Num(SignAt(text, s) * DigitsValue(text, i, j, 0), 1)

\* Global parseFloat(text), for decimal literals without an exponent part:
\* optional sign, then Infinity, or digits with an optional fraction.
parseFloat(text) ==
  LET s == SkipSpaces(text, 1)
      i == IF HasSign(text, s) THEN s + 1 ELSE s
      j == DigitsEnd(text, i)
      hasDot == j <= Len(text) /\ text[j] = "."
      k == IF hasDot THEN DigitsEnd(text, j + 1) ELSE j
      places == IF hasDot THEN k - (j + 1) ELSE 0
      whole == DigitsValue(text, i, j, 0)
      frac == IF hasDot THEN DigitsValue(text, j + 1, k, 0) ELSE 0
  IN IF StartsWith(text, i, TXT_Infinity) THEN Num(SignAt(text, s), 0)
     ELSE IF j = i /\ places = 0 THEN Num(0, 0)
     ELSE Num(SignAt(text, s) * (whole * IntPow10(places) + frac),
              IntPow10(places))

\* String(number), for NaN, the infinities and terminating decimals.
RECURSIVE NatToText(_)
NatToText(n) ==
  IF n < 10 THEN <<DigitChars[n + 1]>>
  ELSE Append(NatToText(n \div 10), DigitChars[(n % 10) + 1])
RECURSIVE FractionToText(_, _)
FractionToText(r, d) ==
  IF r = 0 THEN <<>>
  ELSE <<DigitChars[((10 * r) \div d) + 1]>> \o FractionToText((10 * r) % d, d)
NumberToString(x) ==
  IF IsNaN(x) THEN TXT_NaN
  ELSE IF Infinite(x) THEN (IF x.n < 0 THEN <<"-">> ELSE <<>>) \o TXT_Infinity
  ELSE LET a == Abs(x.n)
       IN (IF x.n < 0 THEN <<"-">> ELSE <<>>) \o NatToText(a \div x.d)
          \o (IF a % x.d = 0 THEN <<>> ELSE <<".">> \o FractionToText(a % x.d, x.d))

MathMin(a, b) ==
  IF IsNaN(a) \/ IsNaN(b) THEN Num(0, 0) ELSE IF FLe(a, b) THEN a ELSE b
MathMax(a, b) ==
  IF IsNaN(a) \/ IsNaN(b) THEN Num(0, 0) ELSE IF FLe(a, b) THEN b ELSE a

\* ops.ts:50-57; a query value is a string, an array of strings or undefined
parseString(value) ==
  IF value.isArray
  THEN (IF value.items = <<>> THEN None ELSE Some(value.items[1]))
  ELSE value.items

\* ops.ts:65-74
parseNumber(value) ==
  LET str == parseString(value)
  IN IF str = None THEN None
     ELSE LET num == parseFloat(str[1])
          IN IF IsNaN(num) THEN None ELSE Some(num)

\* ops.ts:112-117
clampValue(number, min, max) ==
  IF IsNaN(parseInt(NumberToString(number))) THEN min
  ELSE MathMax(min, MathMin(number, max))

\* fmt.ts:247-263, with the environment value clamped like the requested one
resolveCacheSecondsClampedEnv(requested, def, min, max) ==
  LET envCacheSeconds == parseInt(env.CACHE_SECONDS[1])
  IN clampValue(IF Truthy(env.CACHE_SECONDS) /\ ~IsNaN(envCacheSeconds)
                THEN envCacheSeconds
                ELSE IF requested = None \/ IsNaN(requested[1]) THEN Num(def, 1)
                ELSE requested[1],
                Num(min, 1), Num(max, 1))

\* fmt.ts:247-263; isNaN(undefined) is true
resolveCacheSeconds(requested, def, min, max) ==
  LET cacheSeconds ==
        clampValue(IF requested = None \/ IsNaN(requested[1]) THEN Num(def, 1)
                   ELSE requested[1],
                   Num(min, 1), Num(max, 1))
      envCacheSeconds == parseInt(env.CACHE_SECONDS[1])
  IN IF Truthy(env.CACHE_SECONDS) /\ ~IsNaN(envCacheSeconds)
     THEN envCacheSeconds
     ELSE cacheSeconds

\* One res.setHeader call. A Cache-Control value built from a template
\* carries the seconds interpolated into max-age and s-maxage, and the
\* stale-while-revalidate seconds.
Header(name, value) ==
  [name |-> name, value |-> value, seconds |-> None,
   staleWhileRevalidate |-> None]
CacheControl(seconds) ==
  [name |-> "Cache-Control",
   value |-> "max-age, s-maxage, stale-while-revalidate",
   seconds |-> Some(seconds),
   staleWhileRevalidate |-> Some(Num(DURATIONS.ONE_DAY, 1))]

\* fmt.ts:270-277
disableCaching ==
  <<Header("Cache-Control",
           "no-cache, no-store, must-revalidate, max-age=0, s-maxage=0"),
    Header("Pragma", "no-cache"),
    Header("Expires", "0")>>

Development == env.NODE_ENV = Some("development")

\* fmt.ts:288-303
setCacheHeaders(cacheSeconds) ==
  IF FLt(cacheSeconds, Num(1, 1)) \/ Development THEN disableCaching
  ELSE <<CacheControl(cacheSeconds)>>

\* fmt.ts:313-331, with the stats card's lifetime in place of CACHE_TTL.ERROR
setErrorCacheHeadersCardLifetime ==
  IF Development THEN disableCaching
  ELSE <<CacheControl(Num(CACHE_TTL.STATS_CARD.DEFAULT, 1))>>

\* fmt.ts:313-331
setErrorCacheHeaders ==
  LET envCacheSeconds ==
        IF Truthy(env.CACHE_SECONDS) THEN parseInt(env.CACHE_SECONDS[1])
        ELSE Num(0, 0)
  IN IF (~IsNaN(envCacheSeconds) /\ FLt(envCacheSeconds, Num(1, 1)))
        \/ Development
     THEN disableCaching
     ELSE <<CacheControl(Num(CACHE_TTL.ERROR, 1))>>

\* ----------------------------------------------------------- card handlers
\* api/index.ts (stats), api/header.ts:85-260 (top-langs), api/streak.ts,
\* part_000 (activity), part_002 (gist), api/wakatime.ts
Cards == {"stats", "top-langs", "streak", "activity", "gist", "wakatime"}

\* The `type` each handler passes to guardAccess.
HandlerType(card) ==
  IF card = "gist" THEN "gist"
  ELSE IF card = "wakatime" THEN "wakatime"
  ELSE "username"

\* The CACHE_TTL entry each handler passes to resolveCacheSeconds.
HandlerTTL(card) ==
  IF card = "gist" THEN CACHE_TTL.GIST_CARD
  ELSE IF card = "top-langs" THEN CACHE_TTL.TOP_LANGS_CARD
  ELSE IF card = "wakatime" THEN CACHE_TTL.WAKATIME_CARD
  ELSE CACHE_TTL.STATS_CARD

\* `if (!access.isPassed) return access.result;`
AccessBlocksNever(access) == FALSE
AccessBlocks(access) == ~access.isPassed

ContentType == Header("Content-Type", "image/svg+xml")
LocaleNotFound == ErrorCard("Algo deu errado", "Idioma não encontrado")
IncorrectOption(option) ==
  ErrorCard("Something went wrong",
            IF option = "layout" THEN "Incorrect layout input"
            ELSE "Incorrect stats_format input")
UnknownError == ErrorCard("Ocorreu um erro desconhecido", "")

Settle(outcome) == [handler EXCEPT !.pc = "done", !.outcome = outcome]
Respond(headers, sends) ==
  httpRes' = [headers |-> httpRes.headers \o headers,
              sent |-> httpRes.sent \o sends]

\* The handler up to its first await, or to its return or throw before it.
HandlerCall ==
  /\ handler.pc = "idle"
  /\ req.card \in Cards
  /\ LET idStr == parseString(req.id)
         access == guardAccess(idStr[1], HandlerType(req.card))
     IN IF ~Truthy(idStr)
        THEN /\ Respond(<<ContentType>>, <<>>)
             /\ handler' = Settle("rejected: MissingParamError")
        ELSE IF access.threw
        THEN /\ Respond(<<ContentType>>, <<>>)
             /\ handler' = Settle("rejected: Error")
        ELSE IF AccessBlocks(access)
        THEN /\ Respond(<<ContentType>>, access.sends)
             /\ handler' = Settle("fulfilled")
        ELSE IF ~req.localeAvailable
        THEN /\ Respond(<<ContentType>>,
                        access.sends \o <<SendBy("handler", LocaleNotFound)>>)
             /\ handler' = Settle("fulfilled")
        ELSE IF req.card = "top-langs" /\ req.invalidOption # ""
        THEN /\ Respond(<<ContentType>>,
                        access.sends
                          \o <<SendBy("handler", IncorrectOption(req.invalidOption))>>)
             /\ handler' = Settle("fulfilled")
        ELSE /\ Respond(<<ContentType>>, access.sends)
             /\ handler' = [handler EXCEPT !.pc = "fetching", !.fetches = @ + 1]
  /\ UNCHANGED <<env, req, retryVars, rankVars, moreVars>>

\* The awaited fetcher promise fulfils: the rest of the try block.
FetcherFulfils ==
  /\ handler.pc = "fetching"
  /\ LET ttl == HandlerTTL(req.card)
         cacheSeconds ==
           resolveCacheSeconds(parseNumber(req.cache_seconds), ttl.DEFAULT,
                               ttl.MIN, ttl.MAX)
     IN Respond(setCacheHeaders(cacheSeconds),
                <<SendBy("handler", Card(req.card))>>)
  /\ handler' = Settle("fulfilled")
  /\ UNCHANGED <<env, req, retryVars, rankVars, moreVars>>

\* What a fetcher may throw: an Error with its messages, or any other value.
FetchErrors ==
  {[isError |-> TRUE, message |-> "Nenhum token da API do GitHub encontrado",
    secondaryMessage |->
      "Por favor, adicione uma variável de ambiente chamada PAT_1 com seu token da API do GitHub no Vercel"],
   [isError |-> TRUE,
    message |-> "Serviço indisponível por limite de taxa da API do GitHub",
    secondaryMessage |->
      "Você pode fazer o deploy da sua própria instância ou aguardar até que a pública não esteja mais limitada"],
   [isError |-> FALSE, message |-> "", secondaryMessage |-> ""]}

\* The awaited fetcher promise rejects: the catch block.
FetcherThrows(err) ==
  /\ handler.pc = "fetching"
  /\ Respond(setErrorCacheHeaders,
             <<SendBy("handler",
                      IF err.isError
                      THEN ErrorCard(err.message, err.secondaryMessage)
                      ELSE UnknownError)>>)
  /\ handler' = Settle("fulfilled")
  /\ UNCHANGED <<env, req, retryVars, rankVars, moreVars>>

\* Deployment settings and requests.
EnvTexts ==
  [WHITELIST : {None, Some(TXT_empty), Some(TXT_bob_sw_yx), Some(TXT_Bob)},
   GIST_WHITELIST : {None, Some(TXT_empty), Some(TXT_g1)},
   CACHE_SECONDS : {None, Some(<<"0">>), Some(<<"3", "6", "0", "0">>),
                    Some(<<"-", "1">>), Some(TXT_undefined)},
   NODE_ENV : {None, Some("development")}]

QueryString(text) == [isArray |-> FALSE, items |-> <<text>>]
QueryArray(texts) == [isArray |-> TRUE, items |-> texts]

IdValues ==
  {QueryAbsent, QueryString(TXT_empty), QueryString(TXT_bob),
   QueryString(TXT_sw_yx), QueryString(TXT_g1),
   QueryArray(<<TXT_sw_yx, TXT_bob>>)}

CacheSecondsValues ==
  {QueryAbsent, QueryString(<<"a", "b", "c">>), QueryString(<<"0">>),
   QueryString(<<"5", "0", "0", "0", "0", ".", "5">>), QueryString(<<"9", "9", "9", "9", "9", "9", "9", "9">>),
   QueryString(TXT_Infinity)}

Requests ==
  {r \in [card : Cards, id : IdValues, cache_seconds : CacheSecondsValues,
          localeAvailable : BOOLEAN,
          invalidOption : {"", "layout", "stats_format"}] :
     r.invalidOption # "" => r.card = "top-langs"}

InitApi ==
  /\ InitRetryer({0})
  /\ rankIn = RankIdle
  /\ rankOut = NoRank
  /\ env \in EnvTexts
  /\ req \in Requests
  /\ handler = HandlerIdle
  /\ httpRes = NoResponseSent
  /\ patCheck = PatIdle
  /\ starPages = PagesIdle
  /\ topLangs = LangsIdle
  /\ guardCall = GuardIdle

NextApi ==
  \/ HandlerCall
  \/ FetcherFulfils
  \/ \E err \in FetchErrors : FetcherThrows(err)

SpecApi == InitApi /\ [][NextApi]_vars

\* -------------------------------------------------------------- getPATInfo
\* part_001:65-144.  The PAT_* keys are numbered in Object.keys order;
\* patCheck.tokens[k] is process.env of the k-th key ("" when set but empty).
PatTokens == {"", "ghp_token"}

\* String.prototype.toLowerCase on the REST messages the model draws.
ToLowerCaseMessage(message) ==
  IF message \in {"Bad credentials", "bad credentials"} THEN "bad credentials"
  ELSE IF message = "Sorry. Your account was suspended."
  THEN "sorry. your account was suspended."
  ELSE IF message = "Not Found" THEN "not found"
  ELSE message

\* A non-RATE_LIMITED error together with an exhausted quota in one body.
RespErrorQuotaZero ==
  Response(200, TRUE, <<ErrorEntry("NOT_FOUND", MsgNotFound)>>, TRUE, 0, "", "")

PatResponses ==
  {RespOkQuota, RespQuotaZero, RespRateLimited, RespNotFound,
   RespErrorQuotaZero, RespOk, RespEmptyErrors}

\* part_001:77-107  the try block after the await: the status stored for the
\* PAT, or the TypeError a property read of undefined raises.
PatThrows(cause) == [threw |-> TRUE, cause |-> cause, status |-> ""]
PatStatus(status) == [threw |-> FALSE, cause |-> "", status |-> status]
ClassifyResponse(response) ==
  LET hasErrors == response.hasErrors
      errorType ==
        IF hasErrors /\ response.errors # << >> THEN response.errors[1].type
        ELSE Undefined
      rateLimited ==
        \/ hasErrors /\ errorType = "RATE_LIMITED"
        \/ response.hasRateLimit /\ response.remaining = 0
  IN IF hasErrors /\ errorType # "RATE_LIMITED"
     THEN (IF response.errors = << >> THEN PatThrows("TypeError")
           ELSE PatStatus("error"))
     ELSE IF rateLimited THEN PatStatus("exhausted")
     ELSE IF ~response.hasRateLimit THEN PatThrows("TypeError")
     ELSE PatStatus("valid")

\* part_001:108-122  the catch block
ClassifyFault(e) ==
  LET errorMessage ==
        IF e.hasResponse THEN ToLowerCaseMessage(e.response.message)
        ELSE Undefined
  IN IF errorMessage = "bad credentials" THEN PatStatus("expired")
     ELSE IF errorMessage = "sorry. your account was suspended."
     THEN PatStatus("suspended")
     ELSE PatThrows(e.cause)

\* part_001:72-76  the loop up to its next await: PATs without a token are
\* skipped; the result is the index awaited on, or 0 when the loop is over.
RECURSIVE NextAwaited(_, _)
NextAwaited(tokens, i) ==
  IF i > Len(tokens) THEN 0
  ELSE IF tokens[i] = "" THEN NextAwaited(tokens, i + 1)
  ELSE i

\* part_001:125-127 and 136-141, as the indices of the PATs
filterPATsByStatus(status) ==
  SelectSeq([k \in 1..Len(patCheck.details) |-> k],
            LAMBDA k : patCheck.details[k] = status)

Continue(from, details) ==
  LET k == NextAwaited(patCheck.tokens, from)
  IN patCheck' =
       [patCheck EXCEPT !.details = details,
                        !.i = IF k = 0 THEN Len(patCheck.tokens) ELSE k,
                        !.awaiting = k # 0,
                        !.outcome = IF k = 0 THEN "returned" ELSE "running"]

Store(verdict, settlement) ==
  LET logged == Append(patCheck.log, [pat |-> patCheck.i, settlement |-> settlement])
  IN IF verdict.threw
     THEN patCheck' = [patCheck EXCEPT !.awaiting = FALSE, !.outcome = "threw",
                                       !.error = verdict.cause, !.log = logged]
     ELSE LET k == NextAwaited(patCheck.tokens, patCheck.i + 1)
          IN patCheck' =
               [patCheck EXCEPT
                  !.details = [@ EXCEPT ![patCheck.i] = verdict.status],
                  !.log = logged,
                  !.i = IF k = 0 THEN Len(patCheck.tokens) ELSE k,
                  !.awaiting = k # 0,
                  !.outcome = IF k = 0 THEN "returned" ELSE "running"]

PatOthersUnchanged ==
  UNCHANGED <<retryVars, rankVars, apiVars, starPages, topLangs, guardCall>>

GetPATInfo ==
  /\ patCheck.outcome = "idle"
  /\ Continue(1, patCheck.details)
  /\ PatOthersUnchanged

PatFetcherResolves(response) ==
  /\ patCheck.awaiting
  /\ Store(ClassifyResponse(response), Resolved(response))
  /\ PatOthersUnchanged

PatFetcherRejects(e) ==
  /\ patCheck.awaiting
  /\ Store(ClassifyFault(e), e)
  /\ PatOthersUnchanged

PatChecks ==
  {[tokens |-> t, i |-> 0, awaiting |-> FALSE,
    details |-> [k \in 1..Len(t) |-> ""], outcome |-> "idle", error |-> "",
    log |-> <<>>] :
     t \in UNION {[1..n -> PatTokens] : n \in 0..MaxPats}}

InitPat ==
  /\ InitRetryer({0})
  /\ rankIn = RankIdle
  /\ rankOut = NoRank
  /\ env = EnvUnset
  /\ req = NoRequest
  /\ handler = HandlerIdle
  /\ httpRes = NoResponseSent
  /\ patCheck \in PatChecks
  /\ starPages = PagesIdle
  /\ topLangs = LangsIdle
  /\ guardCall = GuardIdle

NextPat ==
  \/ GetPATInfo
  \/ \E response \in PatResponses : PatFetcherResolves(response)
  \/ \E e \in Faults : PatFetcherRejects(e)

SpecPat == InitPat /\ [][NextPat]_vars

\* ------------------------------------------------------------ statsFetcher
\* One call of statsFetcher.  A page is what the loop reads of one response:
\* whether data.errors is set, the stargazer counts of the repository nodes
\* in their order, and pageInfo.hasNextPage.
StarCounts == {0, 100}

Page(errors, nodes, hasNextPage) ==
  [errors |-> errors, nodes |-> nodes, hasNextPage |-> hasNextPage]

ErrorPage == Page(TRUE, <<>>, FALSE)

Pages ==
  {ErrorPage} \cup
  {Page(FALSE, nodes, more) :
     nodes \in UNION {[1..n -> StarCounts] : n \in 0..MaxNodes},
     more \in BOOLEAN}

MultiPageSettings == {None, Some("true"), Some("false")}

repoNodesWithStars(repoNodes) == SelectSeq(repoNodes, LAMBDA node : node # 0)

hasNextPageAnyStars(setting, res) ==
  /\ setting = Some("true")
  /\ res.hasNextPage

hasNextPage(setting, res) ==
  /\ setting = Some("true")
  /\ Len(res.nodes) = Len(repoNodesWithStars(res.nodes))
  /\ res.hasNextPage

\* stats is the first response object; later pages push their nodes onto it.
Accumulate(stats, res) ==
  IF stats = None THEN Some(res)
  ELSE Some([stats[1] EXCEPT !.nodes = @ \o res.nodes])

\* Upstream has at most MaxPages pages worth asking for: the page that comes
\* last either ends the listing, holds a zero-star repository or is an error.
UpstreamEnds(res) ==
  \/ res.errors
  \/ ~res.hasNextPage
  \/ \E k \in 1..Len(res.nodes) : res.nodes[k] = 0

StatsOthersUnchanged ==
  UNCHANGED <<retryVars, rankVars, apiVars, patCheck, topLangs, guardCall>>

StatsFetcher ==
  /\ starPages.pc = "idle"
  /\ starPages' = [starPages EXCEPT !.pc = "awaiting"]
  /\ StatsOthersUnchanged

StatsRetryerResolves(res) ==
  /\ starPages.pc = "awaiting"
  /\ Len(starPages.log) + 1 < MaxPages \/ UpstreamEnds(res)
  /\ LET logged == Append(starPages.log, res)
         stats == Accumulate(starPages.stats, res)
     IN starPages' =
          IF res.errors
          THEN [starPages EXCEPT !.log = logged, !.pc = "returned",
                                 !.returned = Some(res)]
          ELSE IF hasNextPage(starPages.FETCH_MULTI_PAGE_STARS, res)
          THEN [starPages EXCEPT !.log = logged, !.stats = stats]
          ELSE [starPages EXCEPT !.log = logged, !.stats = stats,
                                 !.pc = "returned", !.returned = stats]
  /\ StatsOthersUnchanged

StatsRetryerRejects ==
  /\ starPages.pc = "awaiting"
  /\ starPages' = [starPages EXCEPT !.pc = "threw"]
  /\ StatsOthersUnchanged

InitStats ==
  /\ InitRetryer({0})
  /\ rankIn = RankIdle
  /\ rankOut = NoRank
  /\ env = EnvUnset
  /\ req = NoRequest
  /\ handler = HandlerIdle
  /\ httpRes = NoResponseSent
  /\ patCheck = PatIdle
  /\ starPages \in {[PagesIdle EXCEPT !.FETCH_MULTI_PAGE_STARS = setting] :
                      setting \in MultiPageSettings}
  /\ topLangs = LangsIdle
  /\ guardCall = GuardIdle

NextStats ==
  \/ StatsFetcher
  \/ \E res \in Pages : StatsRetryerResolves(res)
  \/ StatsRetryerRejects

\* The awaited retryer call always settles, so a pending await is resumed.
SpecStats == InitStats /\ [][NextStats]_vars /\ WF_vars(NextStats)

\* ------------------------------------------------------- fetchTopLanguages
\* One call of fetchTopLanguages on a response without errors.  Of a
\* language edge only node.name is kept, of a language entry only its count.
LangNames == {"HTML", "javascript"}
RepoNames == <<"test-repo-1", "test-repo-2", "test-repo-3", "test-repo-4">>
RepoSizes == {1, 2}

\* The edges of one repository: each language at most once.
LangEdges ==
  {edges \in UNION {[1..n -> LangNames] : n \in 0..2} :
     \A i, j \in 1..Len(edges) : i # j => edges[i] # edges[j]}

RepoNodeSeqs ==
  {[k \in 1..n |-> [name |-> RepoNames[k], size |-> sizes[k],
                    edges |-> langs[k]]] :
     n \in 0..MaxRepos,
     sizes \in [1..MaxRepos -> RepoSizes],
     langs \in [1..MaxRepos -> LangEdges]}

\* Array.prototype.sort with (a, b) => b.size - a.size: stable, largest first.
RECURSIVE InsertBySize(_, _)
InsertBySize(sorted, node) ==
  IF sorted = <<>> THEN <<node>>
  ELSE IF Head(sorted).size >= node.size
  THEN <<Head(sorted)>> \o InsertBySize(Tail(sorted), node)
  ELSE <<node>> \o sorted

RECURSIVE SortBySize(_)
SortBySize(nodes) ==
  IF nodes = <<>> THEN <<>>
  ELSE InsertBySize(SortBySize(SubSeq(nodes, 1, Len(nodes) - 1)),
                    nodes[Len(nodes)])

repoToHide(exclude_repo, name) == Includes(exclude_repo, name)

\* reduce((acc, curr) => curr.languages.edges.concat(acc), [])
RECURSIVE ConcatEdges(_)
ConcatEdges(nodes) ==
  IF nodes = <<>> THEN <<>>
  ELSE nodes[Len(nodes)].edges
         \o ConcatEdges(SubSeq(nodes, 1, Len(nodes) - 1))

\* One step of the second reduce: acc maps a language to its entry's count
\* (0: no entry yet); repoCount is the variable declared outside the reduce.
CountStep(state, name) ==
  LET repoCount == IF state.acc[name] > 0 THEN state.repoCount + 1 ELSE 1
  IN [acc |-> [state.acc EXCEPT ![name] = repoCount], repoCount |-> repoCount]

RECURSIVE CountEdges(_)
CountEdges(edges) ==
  IF edges = <<>>
  THEN [acc |-> [name \in LangNames |-> 0], repoCount |-> 0]
  ELSE CountStep(CountEdges(SubSeq(edges, 1, Len(edges) - 1)),
                 edges[Len(edges)])

langNodes(repoNodes, exclude_repo) ==
  LET shown == SelectSeq(SortBySize(repoNodes),
                         LAMBDA node : ~repoToHide(exclude_repo, node.name))
      withEdges == SelectSeq(shown, LAMBDA node : Len(node.edges) > 0)
  IN CountEdges(ConcatEdges(withEdges)).acc

FetchTopLanguages ==
  /\ ~topLangs.called
  /\ topLangs' = [topLangs EXCEPT
                    !.called = TRUE,
                    !.langNodes = langNodes(topLangs.repoNodes,
                                            topLangs.exclude_repo)]
  /\ UNCHANGED <<retryVars, rankVars, apiVars, patCheck, starPages, guardCall>>

InitLangs ==
  /\ InitRetryer({0})
  /\ rankIn = RankIdle
  /\ rankOut = NoRank
  /\ env = EnvUnset
  /\ req = NoRequest
  /\ handler = HandlerIdle
  /\ httpRes = NoResponseSent
  /\ patCheck = PatIdle
  /\ starPages = PagesIdle
  /\ topLangs \in {[LangsIdle EXCEPT !.repoNodes = nodes,
                                     !.exclude_repo = hidden] :
                     nodes \in RepoNodeSeqs,
                     hidden \in {<<>>, <<RepoNames[1]>>}}
  /\ guardCall = GuardIdle

NextLangs == FetchTopLanguages

SpecLangs == InitLangs /\ [][NextLangs]_vars

\* ------------------------------------------------- guardAccess, called alone
\* One call of guardAccess with any `type` a caller may write, the three
\* supported kinds and one that is not.
GuardTypes == {"username", "gist", "wakatime", "repo"}
GuardIds == {TXT_bob, TXT_sw_yx, TXT_g1, TXT_renovate_bot}

GuardAccess ==
  /\ ~guardCall.called
  /\ LET access == guardAccess(guardCall.id, guardCall.type)
     IN guardCall' = [guardCall EXCEPT !.called = TRUE,
                                       !.threw = access.threw,
                                       !.isPassed = access.isPassed,
                                       !.sent = access.sends]
  /\ UNCHANGED <<retryVars, rankVars, apiVars, patCheck, starPages, topLangs>>

InitGuard ==
  /\ InitRetryer({0})
  /\ rankIn = RankIdle
  /\ rankOut = NoRank
  /\ env \in {e \in EnvTexts : e.CACHE_SECONDS = None /\ e.NODE_ENV = None}
  /\ req = NoRequest
  /\ handler = HandlerIdle
  /\ httpRes = NoResponseSent
  /\ patCheck = PatIdle
  /\ starPages = PagesIdle
  /\ topLangs = LangsIdle
  /\ guardCall \in {[GuardIdle EXCEPT !.id = id, !.type = type] :
                      id \in GuardIds, type \in GuardTypes}

NextGuard == GuardAccess

SpecGuard == InitGuard /\ [][NextGuard]_vars

\* ------------------------------------------------------------------ claims
\* How the upstream behaved, read off the settlements alone.
SignalsRateLimit(o) ==
  /\ ~o.rejected
  /\ o.response.hasErrors
  /\ Len(o.response.errors) >= 1
  /\ o.response.errors[1].type = "RATE_LIMITED"
MessageRateLimit(o) ==
  /\ ~o.rejected
  /\ o.response \in {RespMsgRateLimit, RespMsgUpper, RespMsgMixed}
QuotaExhausted(o) ==
  /\ ~o.rejected
  /\ ~o.response.hasErrors
  /\ o.response.hasRateLimit
  /\ o.response.remaining = 0
IsSuccess(o) == ~o.rejected /\ o.response \in {RespOk, RespOkQuota}
BadCredentialFault(o) ==
  /\ o.rejected
  /\ o.hasResponse
  /\ o.response.message \in {"Bad credentials", "Sorry. Your account was suspended."}
OtherFault(o) == o.rejected /\ o.hasResponse /\ ~BadCredentialFault(o)
PlainError(o) == ~o.rejected /\ o.response \in {RespNotFound, RespHyphen}

\* The arguments retryer hands to the fetcher on its i-th invocation.
ArgsOf(i) == [key |-> i, token |-> EnvPat(i), retries |-> i - 1]

\* The i-th settlement of call c was answered by rotating: one more
\* invocation with the next attempt index and credential or, past the last
\* credential, MAX_RETRY.
Rotated(c, i) ==
  IF i <= RETRIES
  THEN Len(mockCalls[c]) >= i + 1 /\ mockCalls[c][i + 1] = ArgsOf(i + 1)
  ELSE /\ pc[c] = "done"
       /\ result[c] = Thrown("MAX_RETRY")
       /\ Len(mockCalls[c]) = i

\* The i-th settlement of call c ended the call with res, with no further
\* invocation and no rotation.
EndedWith(c, i, res) ==
  /\ Len(settled[c]) = i
  /\ pc[c] = "done"
  /\ result[c] = res
  /\ Len(mockCalls[c]) = i
  /\ retries[c] = i - 1

\* A call whose every settlement so far is one of `kinds` runs to exactly
\* RETRIES + 1 invocations and then fails with MAX_RETRY.
BoundedBy(c, kind(_)) ==
  (RETRIES >= 1 /\ \A i \in 1..Len(settled[c]) : kind(settled[c][i])) =>
    /\ Len(mockCalls[c]) <= RETRIES + 1
    /\ pc[c] = "awaiting" => Len(mockCalls[c]) = Len(settled[c]) + 1
    /\ pc[c] = "done" =>
         /\ Len(mockCalls[c]) = RETRIES + 1
         /\ Len(settled[c]) = RETRIES + 1
         /\ result[c] = Thrown("MAX_RETRY")

\* C1: with a pool of N >= 1 credentials, a fetcher that answers every call
\* with a RATE_LIMITED error is invoked exactly N + 1 times by one top-level
\* call, which then fails with MAX_RETRY; it is never invoked an (N+2)-th time.
C1_RetryBound == \A c \in Calls : BoundedBy(c, SignalsRateLimit)

C1_Witness ==
  /\ RETRIES = MaxPool
  /\ pc[1] = "done"
  /\ result[1] = Thrown("MAX_RETRY")
  /\ Len(mockCalls[1]) = MaxPool + 1
  /\ \A i \in 1..Len(settled[1]) : SignalsRateLimit(settled[1][i])

\* C2: a fetcher that is rate limited on attempts 0..k-1 and succeeds on
\* attempt k (0 <= k <= N) is invoked exactly k + 1 times, the i-th call
\* receiving attempt index i and credential PAT_(i+1), and the call returns
\* the success response unchanged; while only rate limits have been seen and
\* credentials remain, the call is still trying.
C2_RotationUntilSuccess ==
  \A c \in Calls :
    LET s == settled[c]
        n == Len(s)
    IN RETRIES >= 1 =>
         /\ (/\ pc[c] # "idle"
             /\ n <= RETRIES
             /\ \A i \in 1..n : SignalsRateLimit(s[i]))
            => /\ pc[c] = "awaiting"
               /\ Len(mockCalls[c]) = n + 1
         /\ (/\ n >= 1
             /\ \A i \in 1..(n - 1) : SignalsRateLimit(s[i])
             /\ IsSuccess(s[n]))
            => /\ n <= RETRIES + 1
               /\ pc[c] = "done"
               /\ result[c] = Returned(s[n].response)
               /\ Len(mockCalls[c]) = n
               /\ \A i \in 1..n : mockCalls[c][i] = ArgsOf(i)

C2_Witness ==
  /\ RETRIES = 3
  /\ settled[1] = <<Resolved(RespRateLimited), Resolved(RespRateLimited), Resolved(RespOk)>>
  /\ pc[1] = "done"
  /\ result[1] = Returned(RespOk)
  /\ mockCalls[1][3].key = 3

\* C3: a response whose first error entry has a type other than RATE_LIMITED
\* and a message containing "rate limit" in any letter case is answered as a
\* RATE_LIMITED one is: the attempt index goes up by one and the fetcher is
\* invoked again with the next credential.
C3_MessageRateLimit ==
  \A c \in Calls : \A i \in 1..Len(settled[c]) :
    (MessageRateLimit(settled[c][i]) \/ SignalsRateLimit(settled[c][i]))
      => Rotated(c, i)

C3_Witness ==
  /\ Len(settled[1]) >= 2
  /\ settled[1][1] = Resolved(RespMsgUpper)
  /\ settled[1][2] = Resolved(RespMsgRateLimit)
  /\ Len(mockCalls[1]) = 3
  /\ retries[1] = 2

\* C4: with no PAT configured (RETRIES = 0) a call fails at once with
\* NO_TOKENS and the fetcher is never invoked.
C4_NoTokens ==
  RETRIES = 0 =>
    \A c \in Calls :
      /\ mockCalls[c] = << >>
      /\ settled[c] = << >>
      /\ pc[c] # "idle" => (pc[c] = "done" /\ result[c] = Thrown("NO_TOKENS"))

C4_Witness == RETRIES = 0 /\ pc[1] = "done" /\ result[1] = Thrown("NO_TOKENS")

\* C5 as claimed: a response with no error entry whose rateLimit.remaining is
\* zero is answered by rotating to the next credential.
C5_QuotaRotates ==
  \A c \in Calls : \A i \in 1..Len(settled[c]) :
    QuotaExhausted(settled[c][i]) => Rotated(c, i)

\* C5, amended: retryer does not read rateLimit.remaining; a response with no
\* error entry and a zero remaining quota is returned unchanged, with no
\* rotation and no further invocation.
C5_QuotaReturned ==
  \A c \in Calls : \A i \in 1..Len(settled[c]) :
    QuotaExhausted(settled[c][i]) =>
      EndedWith(c, i, Returned(settled[c][i].response))

C5_Witness ==
  /\ RETRIES = 2
  /\ settled[1] = <<Resolved(RespRateLimited), Resolved(RespQuotaZero)>>
  /\ result[1] = Returned(RespQuotaZero)

\* C6: a rejection that carries no response is rethrown as it is, at once:
\* the fetcher is not invoked again and the attempt index does not move,
\* whatever the attempt index is.
C6_NetworkFaultPropagates ==
  \A c \in Calls : \A i \in 1..Len(settled[c]) :
    (settled[c][i].rejected /\ ~settled[c][i].hasResponse) =>
      EndedWith(c, i, Thrown(settled[c][i].cause))

C6_Witness ==
  /\ Len(settled[1]) = 3
  /\ settled[1][3] = NetworkFault("ETIMEDOUT")
  /\ result[1] = Thrown("ETIMEDOUT")
  /\ retries[1] = 2

\* C7: a rejection whose response message is "Bad credentials" or "Sorry.
\* Your account was suspended." is answered by rotating to the next
\* credential; such rejections and rate-limit responses, in any order, share
\* the one bound of N + 1 invocations, after which the call fails with
\* MAX_RETRY.
RotatingSettlement(o) ==
  SignalsRateLimit(o) \/ MessageRateLimit(o) \/ BadCredentialFault(o)

C7_BadCredentialRotation ==
  \A c \in Calls :
    /\ \A i \in 1..Len(settled[c]) :
         BadCredentialFault(settled[c][i]) => Rotated(c, i)
    /\ BoundedBy(c, RotatingSettlement)

C7_Witness ==
  /\ RETRIES = 3
  /\ settled[1] = <<Rejected("AxiosError403", Resp403), Resolved(RespRateLimited),
                    Rejected("AxiosError401", Resp401), Rejected("AxiosError403", Resp403)>>
  /\ result[1] = Thrown("MAX_RETRY")
  /\ Len(mockCalls[1]) = 4

\* C8: a rejection with a response that is neither bad-credential nor
\* suspended-account makes retryer return that response (no throw, no
\* retry); a resolved response whose error entry is neither RATE_LIMITED nor
\* worded "rate limit" is returned unchanged with no further invocation.
C8_NonRetryableSurfaced ==
  \A c \in Calls : \A i \in 1..Len(settled[c]) :
    (OtherFault(settled[c][i]) \/ PlainError(settled[c][i])) =>
      EndedWith(c, i, Returned(settled[c][i].response))

C8_Witness ==
  /\ settled[1] = <<Rejected("AxiosError404", Resp404)>>
  /\ result[1] = Returned(Resp404)
  /\ Len(mockCalls[1]) = 1

\* C9: with several calls in flight, every call starts at attempt 0 with
\* PAT_1, and a call's attempt index and the credentials it uses change only
\* in its own steps: the index goes up by one when its own fetcher promise
\* settles to a rate limit or a bad credential, and by nothing else.
OwnRetryStep(c) ==
  /\ pc[c] = "awaiting"
  /\ Len(settled'[c]) = Len(settled[c]) + 1
  /\ RotatingSettlement(settled'[c][Len(settled'[c])])
  /\ retries'[c] = retries[c] + 1

C9_CallScopedStep ==
  \A c \in Calls :
    /\ retries'[c] # retries[c] => OwnRetryStep(c)
    /\ mockCalls'[c] # mockCalls[c] =>
         \/ pc[c] = "idle" /\ mockCalls'[c] = <<ArgsOf(1)>>
         \/ OwnRetryStep(c) /\ mockCalls'[c] = Append(mockCalls[c], ArgsOf(retries[c] + 2))
    /\ (pc[c] = "idle" /\ pc'[c] # "idle") => retries'[c] = 0

C9_CallScopedRetries == [][C9_CallScopedStep]_vars

C9_Witness ==
  /\ pc[1] = "awaiting"
  /\ pc[2] = "awaiting"
  /\ retries[1] = 2
  /\ retries[2] = 0
  /\ mockCalls[2] = <<ArgsOf(1)>>

\* C10: calculateRank of commits, prs, issues, reviews, stars and followers
\* all 0 is level "C" with percentile exactly 100, whatever all_commits is.
AllZero(p) ==
  /\ p.commits = 0
  /\ p.prs = 0
  /\ p.issues = 0
  /\ p.reviews = 0
  /\ p.stars = 0
  /\ p.followers = 0

C10_AllZeroRank ==
  (rankOut.called /\ AllZero(rankIn)) =>
    /\ rankOut.level = "C"
    /\ rankOut.percentile = [n |-> 100, d |-> 1]

C10_Witness ==
  /\ rankOut.called
  /\ AllZero(rankIn)
  /\ rankIn.all_commits
  /\ rankIn.repos = 20

\* C11: two inputs equal in every field except stars, with non-negative
\* stars s1 <= s2: the percentile for s2 is at most the percentile for s1 and
\* the tier for s2 is never later in S, A+, ..., C than the tier for s1.
StarsProbe == {0, 10, 25, 50, 75, 100, 150, 200, 450, 950}

LevelPosition(level) ==
  IF \E i \in 1..Len(LEVELS) : LEVELS[i] = level
  THEN CHOOSE i \in 1..Len(LEVELS) : LEVELS[i] = level
  ELSE Len(LEVELS) + 1

C11_StarsMonotone ==
  (rankOut.called /\ rankIn.stars >= 0) =>
    \A s2 \in StarsProbe :
      s2 >= rankIn.stars =>
        LET more == calculateRank([rankIn EXCEPT !.stars = s2])
        IN /\ FLe(more.percentile, rankOut.percentile)
           /\ LevelPosition(more.level) <= LevelPosition(rankOut.level)

C11_Witness ==
  /\ rankOut.called
  /\ rankIn.stars = 50
  /\ rankOut.level = "C+"
  /\ calculateRank([rankIn EXCEPT !.stars = 950]).level = "B-"
  /\ FLt(calculateRank([rankIn EXCEPT !.stars = 950]).percentile,
         rankOut.percentile)

\* C12: calculateRank of all_commits = false, commits = 500, prs = 100,
\* issues = 50, reviews = 30, stars = 200, followers = 150 returns a level
\* within S, A+, A and a percentile strictly under 15.
C12_DocExample ==
  (rankOut.called /\ rankIn = RankDocExample) =>
    /\ rankOut.level \in {"S", "A+", "A"}
    /\ FLt(rankOut.percentile, Num(15, 1))

\* What the code returns for that input: level "A", percentile
\* 1935385/98304, about 19.69.
C12_DocExampleComputed ==
  /\ rankOut.called
  /\ rankIn = RankDocExample
  /\ rankOut.level = "A"
  /\ rankOut.percentile = Num(1935385, 98304)

\* C13: for every numeric input, zero and negative metric values included,
\* calculateRank returns a level among S, A+, ..., C and a percentile within
\* 0 and 100.
C13_RankTotal ==
  rankOut.called =>
    /\ \E i \in 1..Len(LEVELS) : rankOut.level = LEVELS[i]
    /\ FLe(Num(0, 1), rankOut.percentile)
    /\ FLe(rankOut.percentile, Num(100, 1))

\* Negative stars of one median: the percentile is Infinity, no level.
C13_NegativeStars ==
  /\ rankOut.called
  /\ rankIn = [RankIdle EXCEPT !.stars = -STARS_MEDIAN]
  /\ rankOut.level = Undefined
  /\ rankOut.percentile = Num(1, 0)

\* What a finished guard step left behind, read off the request, the
\* configuration and the response object alone.
HasId == req.id.items # <<>> /\ req.id.items[1] # <<>>
RequestedId == req.id.items[1]
Kind == HandlerType(req.card)
Guarded == handler.pc # "idle" /\ HasId
AllowListFor(kind) == IF kind = "gist" THEN gistWhitelist ELSE whitelist
AllowListText(kind) ==
  IF kind = "gist" THEN env.GIST_WHITELIST ELSE env.WHITELIST
DenyListed(id) == id \in {blacklist[i] : i \in 1..Len(blacklist)}
GuardSends == SelectSeq(httpRes.sent, LAMBDA e : e.at = "guardAccess")
NotWhitelistedCard(kind) ==
  ErrorCard(IF kind = "gist" THEN MENSAGEM_NAO_WHITELISTED_GIST
            ELSE MENSAGEM_NAO_WHITELISTED_USERNAME,
            DeployYourOwn)
BlacklistedCard == ErrorCard(MENSAGEM_BLACKLISTED, DeployYourOwn)
RejectedWith(card) ==
  /\ httpRes.sent = <<SendBy("guardAccess", card)>>
  /\ handler.pc = "done"
  /\ handler.fetches = 0
\* Past the guard: nothing sent by it, and the handler went on to its own checks.
Admitted ==
  /\ GuardSends = <<>>
  /\ \/ handler.fetches = 1
     \/ ~req.localeAvailable
     \/ req.invalidOption # ""

\* C14: when an allow-list is configured for the requested kind, guardAccess
\* decides on allow-list membership alone: an identifier absent from it is
\* rejected as not whitelisted, one present in it is allowed even if it is in
\* the deny-list; membership is exact, case-sensitive string equality.
C14_AllowListPrecedence ==
  (Guarded /\ AllowListFor(Kind) # None) =>
    IF \E i \in 1..Len(AllowListFor(Kind)[1]) :
         AllowListFor(Kind)[1][i] = RequestedId
    THEN Admitted
    ELSE RejectedWith(NotWhitelistedCard(Kind))

C14_Witness ==
  /\ req.card = "stats"
  /\ env.WHITELIST = Some(TXT_bob_sw_yx)
  /\ HasId
  /\ RequestedId = TXT_sw_yx
  /\ DenyListed(RequestedId)
  /\ handler.fetches = 1
  /\ httpRes.sent = <<>>

\* C15: with no allow-list configured, a request of kind username whose
\* identifier is in the deny-list is rejected as blacklisted, and every
\* request of kind gist or wakatime is allowed whatever the identifier.
C15_DefaultOpenDenyList ==
  (Guarded /\ AllowListFor(Kind) = None) =>
    /\ (Kind = "username" /\ DenyListed(RequestedId))
         => RejectedWith(BlacklistedCard)
    /\ Kind \in {"gist", "wakatime"} => Admitted

C15_Witness ==
  /\ req.card = "wakatime"
  /\ env.WHITELIST = None
  /\ HasId
  /\ RequestedId = TXT_sw_yx
  /\ handler.fetches = 1
  /\ httpRes.sent = <<>>

\* The decision guardAccess reaches, stated from the lists.
ShouldReject ==
  \/ /\ AllowListFor(Kind) # None
     /\ \A i \in 1..Len(AllowListFor(Kind)[1]) :
          AllowListFor(Kind)[1][i] # RequestedId
  \/ /\ AllowListFor(Kind) = None
     /\ Kind = "username"
     /\ DenyListed(RequestedId)

\* C16: guardAccess is a pure decision function: it sends or renders nothing
\* on the response object; the rejection response is produced by its caller.
C16_GuardSendsNothing == GuardSends = <<>>

\* C16, as the code has it: guardAccess sends exactly when it rejects, one
\* error card through res.send, and the handler adds no response of its own;
\* when it allows it sends nothing.
C16_GuardSendsOnRejection ==
  Guarded =>
    IF ShouldReject
    THEN /\ Len(GuardSends) = 1
         /\ GuardSends[1].body.card = "error"
         /\ httpRes.sent = GuardSends
    ELSE GuardSends = <<>>

C16_Witness ==
  /\ req.card = "gist"
  /\ env.GIST_WHITELIST = Some(TXT_g1)
  /\ HasId
  /\ RequestedId = TXT_bob
  /\ httpRes.sent = <<SendBy("guardAccess", NotWhitelistedCard("gist"))>>
  /\ handler.outcome = "fulfilled"

\* C17: in every card handler the access check comes before any fetch: when
\* it rejects, the handler returns without invoking its fetcher, and exactly
\* one response, the rejection card, is sent for the request.
C17_AdmissionBeforeFetch ==
  (Guarded /\ ShouldReject) =>
    /\ handler.fetches = 0
    /\ handler.pc = "done"
    /\ handler.outcome = "fulfilled"
    /\ Len(httpRes.sent) = 1
    /\ httpRes.sent[1].body \in {NotWhitelistedCard(Kind), BlacklistedCard}

C17_Witness ==
  /\ req.card = "top-langs"
  /\ env.WHITELIST = None
  /\ HasId
  /\ RequestedId = TXT_sw_yx
  /\ handler.pc = "done"
  /\ handler.fetches = 0
  /\ httpRes.sent = <<SendBy("guardAccess", BlacklistedCard)>>

\* C18: an allow-list that is configured but empty is enforced: every
\* identifier of that kind is rejected as not whitelisted, unlike an absent
\* allow-list, from the configuration source to the guardAccess decision.
C18_EmptyAllowListEnforced ==
  (Guarded /\ AllowListText(Kind) = Some(TXT_empty)) =>
    RejectedWith(NotWhitelistedCard(Kind))

\* WHITELIST set to the empty string: the request is served as if unset.
C18_EmptyAllowListIgnored ==
  /\ req.card = "stats"
  /\ env.WHITELIST = Some(TXT_empty)
  /\ HasId
  /\ RequestedId = TXT_bob
  /\ whitelist = None
  /\ handler.fetches = 1
  /\ httpRes.sent = <<>>

\* C19: a card handler called without its required identifier sends an error
\* card through res.send, Content-Type image/svg+xml already set, and its
\* promise does not reject with a MissingParamError.
C19_MissingParamCard ==
  (handler.pc = "done" /\ ~HasId) =>
    /\ httpRes.headers[1] = ContentType
    /\ Len(httpRes.sent) = 1
    /\ httpRes.sent[1].body.card = "error"
    /\ handler.outcome = "fulfilled"

\* The gist handler without id: nothing is sent and the promise rejects.
C19_MissingParamRejects ==
  /\ req.card = "gist"
  /\ req.id = QueryAbsent
  /\ handler.pc = "done"
  /\ handler.outcome = "rejected: MissingParamError"
  /\ httpRes.headers = <<ContentType>>
  /\ httpRes.sent = <<>>

\* The requested lifetime clamped into [lo, hi].
Clamped(x, lo, hi) == IF FLe(x, lo) THEN lo ELSE IF FLe(hi, x) THEN hi ELSE x
CardSent ==
  /\ handler.pc = "done"
  /\ Len(httpRes.sent) = 1
  /\ httpRes.sent[1].body = Card(req.card)

\* C20: with no CACHE_SECONDS override (and outside development mode), the
\* lifetime of a successful card response is the requested cache_seconds
\* clamped into the card's [MIN, MAX], the card's DEFAULT when cache_seconds
\* is absent or not a number; it is within [MIN, MAX] and emitted as max-age
\* and s-maxage of Cache-Control.
C20_CacheLifetime ==
  (CardSent /\ env.CACHE_SECONDS = None /\ ~Development) =>
    LET ttl == HandlerTTL(req.card)
        requested == parseNumber(req.cache_seconds)
        lifetime ==
          IF requested = None THEN Num(ttl.DEFAULT, 1)
          ELSE Clamped(requested[1], Num(ttl.MIN, 1), Num(ttl.MAX, 1))
    IN /\ FLe(Num(ttl.MIN, 1), lifetime)
       /\ FLe(lifetime, Num(ttl.MAX, 1))
       /\ httpRes.headers = <<ContentType, CacheControl(lifetime)>>

\* cache_seconds=Infinity on the stats card: the lifetime is MIN, not MAX.
C20_InfiniteRequestGetsMin ==
  /\ CardSent
  /\ req.card = "stats"
  /\ env.CACHE_SECONDS = None
  /\ ~Development
  /\ req.cache_seconds = QueryString(TXT_Infinity)
  /\ httpRes.headers =
       <<ContentType, CacheControl(Num(CACHE_TTL.STATS_CARD.MIN, 1))>>

\* The integer CACHE_SECONDS holds, for the settings the model draws.
EnvOverrides == env.CACHE_SECONDS \in {Some(<<"0">>), Some(<<"3", "6", "0", "0">>), Some(<<"-", "1">>)}
EnvOverride ==
  IF env.CACHE_SECONDS = Some(<<"0">>) THEN Num(0, 1)
  ELSE IF env.CACHE_SECONDS = Some(<<"-", "1">>) THEN Num(-1, 1)
  ELSE Num(3600, 1)
NoCacheHeaders ==
  <<Header("Cache-Control",
           "no-cache, no-store, must-revalidate, max-age=0, s-maxage=0"),
    Header("Pragma", "no-cache"),
    Header("Expires", "0")>>

\* C21: a CACHE_SECONDS that parses to an integer replaces the resolved
\* lifetime whatever was requested and whatever the card's [MIN, MAX]; a
\* lifetime so obtained below 1 gives exactly the no-cache headers instead of
\* a max-age Cache-Control header.
C21_EnvOverride ==
  (CardSent /\ EnvOverrides) =>
    IF FLt(EnvOverride, Num(1, 1))
    THEN httpRes.headers = <<ContentType>> \o NoCacheHeaders
    ELSE ~Development =>
           httpRes.headers = <<ContentType, CacheControl(EnvOverride)>>

C21_Witness ==
  /\ CardSent
  /\ req.card = "top-langs"
  /\ env.CACHE_SECONDS = Some(<<"3", "6", "0", "0">>)
  /\ env.NODE_ENV = None
  /\ req.cache_seconds = QueryString(<<"9", "9", "9", "9", "9", "9", "9", "9">>)
  /\ httpRes.headers = <<ContentType, CacheControl(Num(3600, 1))>>

\* A fetch that failed: the handler's catch block sent the error card.
FetchFailed ==
  /\ handler.pc = "done"
  /\ handler.fetches = 1
  /\ Len(httpRes.sent) = 1
  /\ httpRes.sent[1].body.card = "error"

\* C22: in every card handler no cache header is set before the fetch has
\* settled; when the fetch fails, MAX_RETRY and NO_TOKENS included, the
\* response's Cache-Control carries CACHE_TTL.ERROR (10 minutes) or caching is
\* disabled, never the card's normal lifetime.
C22_FailuresCachedBriefly ==
  /\ handler.pc \in {"idle", "fetching"} =>
       \A i \in 1..Len(httpRes.headers) : httpRes.headers[i].name = "Content-Type"
  /\ FetchFailed =>
       \/ httpRes.headers = <<ContentType, CacheControl(Num(600, 1))>>
       \/ httpRes.headers = <<ContentType>> \o NoCacheHeaders

C22_Witness ==
  /\ FetchFailed
  /\ req.card = "streak"
  /\ httpRes.sent[1].body.message =
       "Serviço indisponível por limite de taxa da API do GitHub"
  /\ httpRes.headers = <<ContentType, CacheControl(Num(600, 1))>>

\* The status each settlement of the fetcher calls for, stated from the
\* settlement alone; "abort" ends the whole check with an error.
PatExpected(settlement) ==
  IF settlement.rejected
  THEN (IF settlement.hasResponse
           /\ settlement.response.message \in {"Bad credentials", "bad credentials"}
        THEN "expired"
        ELSE IF settlement.hasResponse
                /\ settlement.response.message = "Sorry. Your account was suspended."
        THEN "suspended"
        ELSE "abort")
  ELSE LET r == settlement.response
       IN IF r \in {RespRateLimited} THEN "exhausted"
          ELSE IF r \in {RespNotFound, RespErrorQuotaZero} THEN "error"
          ELSE IF r \in {RespQuotaZero} THEN "exhausted"
          ELSE "valid"

\* C23: getPATInfo takes the PATs one after another and puts each PAT with a
\* non-empty token into exactly one of valid, exhausted, expired, suspended,
\* error: RATE_LIMITED or a zero rateLimit.remaining gives exhausted, another
\* error type error, a thrown "Bad credentials" expired, a thrown suspension
\* message suspended, otherwise valid; classifying one PAT never changes
\* another's status; any other thrown fault aborts the whole check.
C23_PatClassification ==
  /\ \A k \in 1..Len(patCheck.log) :
       LET entry == patCheck.log[k]
           expected == PatExpected(entry.settlement)
       IN IF expected = "abort"
          THEN patCheck.outcome = "threw" /\ k = Len(patCheck.log)
          ELSE patCheck.details[entry.pat] = expected
  /\ \A k \in 1..Len(patCheck.tokens) :
       patCheck.tokens[k] = "" => patCheck.details[k] = ""
  /\ patCheck.outcome = "returned" =>
       \A k \in 1..Len(patCheck.tokens) :
         patCheck.tokens[k] # "" =>
           patCheck.details[k] \in {"valid", "exhausted", "expired", "suspended", "error"}

\* A PAT answered without errors and without rateLimit data: the read of
\* rateLimit.remaining raises a TypeError and the whole check is aborted,
\* after an earlier PAT had been classified.
C23_MissingQuotaAborts ==
  /\ Len(patCheck.log) = 2
  /\ patCheck.log[1].settlement = Resolved(RespOkQuota)
  /\ patCheck.log[2].settlement = Resolved(RespOk)
  /\ patCheck.details[patCheck.log[1].pat] = "valid"
  /\ patCheck.outcome = "threw"
  /\ patCheck.error = "TypeError"


\* ---- C24
Concat(pages) ==
  LET RECURSIVE Upto(_)
      Upto(k) == IF k = 0 THEN <<>> ELSE Upto(k - 1) \o pages[k].nodes
  IN Upto(Len(pages))

\* The three conditions for asking upstream for a further page.
AsksFurther(page) ==
  /\ starPages.FETCH_MULTI_PAGE_STARS = Some("true")
  /\ \A k \in 1..Len(page.nodes) : page.nodes[k] > 0
  /\ page.hasNextPage

StarsFetched == Len(starPages.log)

C24_Pages ==
  /\ \A k \in 1..StarsFetched :
       (k < StarsFetched \/ starPages.pc = "awaiting")
         => ~starPages.log[k].errors /\ AsksFurther(starPages.log[k])
  /\ starPages.pc = "returned" =>
       LET last == starPages.log[StarsFetched]
       IN /\ StarsFetched > 0
          /\ last.errors \/ ~AsksFurther(last)
          /\ last.errors => starPages.returned = Some(last)
          /\ ~last.errors =>
               /\ starPages.returned # None
               /\ ~starPages.returned[1].errors
               /\ starPages.returned[1].nodes = Concat(starPages.log)

\* C24: a further page is requested only when FETCH_MULTI_PAGE_STARS is
\* "true", every repository of the page just fetched has stars and upstream
\* reports hasNextPage, otherwise the loop stops after that page; the result
\* holds the nodes of all fetched pages in fetch order; an error page is
\* returned at once; and with an upstream that ends, the pending loop always
\* comes to an end.
C24_StarPagination ==
  /\ [] C24_Pages
  /\ (starPages.pc = "awaiting") ~> (starPages.pc \in {"returned", "threw"})

C24_Witness ==
  /\ starPages.pc = "returned"
  /\ StarsFetched = 3
  /\ ~starPages.log[3].errors
  /\ starPages.log[3].hasNextPage
  /\ starPages.returned[1].nodes = <<100, 100, 100, 100, 0>>

\* ---- C25
ReposWith(name) ==
  {k \in 1..Len(topLangs.repoNodes) :
     /\ ~Includes(topLangs.exclude_repo, topLangs.repoNodes[k].name)
     /\ Includes(topLangs.repoNodes[k].edges, name)}

\* C25: the count of every language equals the number of non-excluded
\* repositories in which the language appears, whatever the order of the
\* repositories and of their languages.
C25_RepositoryCount ==
  topLangs.called =>
    \A name \in LangNames :
      topLangs.langNodes[name] = Cardinality(ReposWith(name))

\* Two repositories that both hold both languages: the shared counter runs
\* on across the languages, so one of them is counted three times.
C25_InterleavedMiscount ==
  /\ topLangs.called
  /\ Len(topLangs.repoNodes) = 2
  /\ topLangs.exclude_repo = <<>>
  /\ \E name \in LangNames :
       /\ Cardinality(ReposWith(name)) = 2
       /\ topLangs.langNodes[name] = 3

\* ---- C26
NonNegative(p) ==
  /\ p.commits >= 0
  /\ p.prs >= 0
  /\ p.issues >= 0
  /\ p.reviews >= 0
  /\ p.stars >= 0
  /\ p.followers >= 0

\* The exponents of the four E terms are whole numbers for these inputs.
WholeExponents(p) ==
  /\ p.commits % (IF p.all_commits THEN 1000 ELSE 250) = 0
  /\ p.prs % 50 = 0
  /\ p.issues % 25 = 0
  /\ p.reviews % 2 = 0

\* The formula of the claim over one denominator: the E terms over 2^K, K the
\* largest exponent, the L terms over (50 + stars) * (10 + followers).
FormulaPercentile(p) ==
  LET a == p.commits \div (IF p.all_commits THEN 1000 ELSE 250)
      b == p.prs \div 50
      c == p.issues \div 25
      d == p.reviews \div 2
      Max(x, y) == IF x >= y THEN x ELSE y
      K == Max(Max(a, b), Max(c, d))
      E(x) == IntPow2(K) - IntPow2(K - x)
      sumE == 2 * E(a) + 3 * E(b) + 1 * E(c) + 1 * E(d)
      g == GCD(50 + p.stars, 10 + p.followers)
      denL == ((50 + p.stars) \div g) * (10 + p.followers)
      sumL == 4 * p.stars * ((10 + p.followers) \div g)
                + 1 * p.followers * ((50 + p.stars) \div g)
      h == GCD(IntPow2(K), denL)
      den == (IntPow2(K) \div h) * denL
      sum == sumE * (denL \div h) + sumL * (IntPow2(K) \div h)
  IN Num(100 * (12 * den - sum), 12 * den)

OtherRepos == {0, 1, 20, 1000}

\* C26: for non-negative inputs the percentile is
\* 100 * (1 - (2 E(commits/M) + 3 E(prs/50) + E(issues/25) + E(reviews/2)
\* + 4 L(stars/50) + L(followers/10)) / 12) with E(x) = 1 - 2^(-x),
\* L(x) = x / (1 + x), M = 1000 under all_commits and 250 otherwise; and
\* repos has no influence on the result.
C26_RankFormula ==
  (rankOut.called /\ NonNegative(rankIn) /\ WholeExponents(rankIn)) =>
    /\ rankOut.percentile = FormulaPercentile(rankIn)
    /\ \A repos \in OtherRepos :
         calculateRank([rankIn EXCEPT !.repos = repos]) = rankOut

\* commits 1000 counts as one median under all_commits and as four otherwise.
C26_Witness ==
  /\ rankOut.called
  /\ rankIn = [RankIdle EXCEPT !.commits = 1000, !.prs = 50, !.stars = 50,
                               !.followers = 10, !.repos = 20]
  /\ rankOut.percentile = Num(1225, 24)
  /\ calculateRank([rankIn EXCEPT !.all_commits = TRUE]).percentile
       = Num(175, 3)

\* ---- C27
ThresholdHalves == <<2, 25, 50, 75, 100, 125, 150, 175, 200>>
Tiers == <<"S", "A+", "A", "A-", "B+", "B", "B-", "C+", "C">>

\* threshold >= percentile, for the threshold h / 2.
AtLeast(h, percentile) ==
  IF percentile.d = 0 THEN percentile.n < 0
  ELSE 2 * percentile.n <= h * percentile.d

FirstAtLeast(i, percentile) ==
  /\ AtLeast(ThresholdHalves[i], percentile)
  /\ \A j \in 1..(i - 1) : ~AtLeast(ThresholdHalves[j], percentile)

\* C27: the level is the tier at the first index, in ascending order of the
\* thresholds 1, 12.5, ..., 100, whose threshold is greater than or equal to
\* the returned, unrounded percentile; a percentile equal to a threshold gets
\* that threshold's tier.
C27_TierLookup ==
  /\ rankOut.called =>
       \A i \in 1..Len(ThresholdHalves) :
         FirstAtLeast(i, rankOut.percentile) => rankOut.level = Tiers[i]
  /\ \A i \in 1..Len(ThresholdHalves) :
       FindIndex(Num(ThresholdHalves[i], 2)) = i

C27_Witness ==
  /\ rankOut.called
  /\ rankIn = RankOnThreshold
  /\ rankOut.percentile = Num(25, 2)
  /\ rankOut.level = "A+"

\* ---- C28
\* The decision for one kind, as a function of that kind's allow-list alone.
PassesBy(listText, id, type) ==
  IF Truthy(listText) THEN Includes(Split(listText[1], ","), id)
  ELSE ~(type = "username" /\ Includes(blacklist, id))

SupportedKind == guardCall.type \in {"username", "gist", "wakatime"}

\* C28: a gist request is decided by the gist allow-list alone and a
\* username or wakatime request by the username allow-list alone, so the
\* other list never changes the decision; a kind outside username, gist,
\* wakatime raises an error with no decision and no response.
C28_ListByKind ==
  guardCall.called =>
    /\ SupportedKind =>
         /\ ~guardCall.threw
         /\ guardCall.isPassed =
              PassesBy(IF guardCall.type = "gist" THEN env.GIST_WHITELIST
                       ELSE env.WHITELIST,
                       guardCall.id, guardCall.type)
         /\ guardCall.isPassed = (guardCall.sent = <<>>)
    /\ ~SupportedKind =>
         /\ guardCall.threw
         /\ ~guardCall.isPassed
         /\ guardCall.sent = <<>>

\* A gist on the gist allow-list passes although the username allow-list is
\* set and does not hold it.
C28_Witness ==
  /\ guardCall.called
  /\ guardCall.type = "gist"
  /\ guardCall.id = TXT_g1
  /\ env.WHITELIST = Some(TXT_bob_sw_yx)
  /\ env.GIST_WHITELIST = Some(TXT_g1)
  /\ guardCall.isPassed

\* ---- C29
\* C29: in every invocation of the fetcher the credential passed is the pool
\* entry at index attempt + 1, that index lies within 1..N, and the
\* credential is never undefined.
C29_CredentialsInPool ==
  \A c \in Calls :
    \A k \in 1..Len(mockCalls[c]) :
      LET call == mockCalls[c][k]
      IN /\ call.key = call.retries + 1
         /\ call.key \in 1..RETRIES
         /\ call.token = Pat(call.key)
         /\ call.token # Undefined

\* After N rate-limited attempts the fetcher is invoked once more, with
\* process.env.PAT_<N+1>, which is not set.
C29_UndefinedCredential ==
  /\ RETRIES = 2
  /\ Len(mockCalls[1]) = 3
  /\ mockCalls[1][3] = [key |-> 3, token |-> Undefined, retries |-> 2]
  /\ settled[1] = <<Resolved(RespRateLimited), Resolved(RespRateLimited)>>

\* ---- C30
\* A settlement that makes retryer go on to the next attempt.
AsksRetry(s) ==
  IF ~s.rejected
  THEN /\ s.response.hasErrors
       /\ s.response.errors # <<>>
       /\ \/ s.response.errors[1].type = "RATE_LIMITED"
          \/ RegexTest(RateLimitPattern, s.response.errors[1].message, TRUE)
  ELSE /\ s.hasResponse
       /\ s.response.message \in {"Bad credentials",
                                  "Sorry. Your account was suspended."}

Invocations == Len(mockCalls[1])

C30_Outcome ==
  /\ Invocations <= RETRIES + 1
  /\ \A k \in 1..Invocations : mockCalls[1][k].retries = k - 1
  /\ pc[1] = "awaiting" => Len(settled[1]) = Invocations - 1
  /\ pc[1] = "done" =>
       /\ Len(settled[1]) = Invocations
       /\ \A k \in 1..(Invocations - 1) : AsksRetry(settled[1][k])
       /\ LET last == settled[1][Invocations]
          IN \/ /\ RETRIES = 0
                /\ Invocations = 0
                /\ result[1] = Thrown("NO_TOKENS")
             \/ /\ RETRIES > 0
                /\ Invocations = RETRIES + 1
                /\ AsksRetry(last)
                /\ result[1] = Thrown("MAX_RETRY")
             \/ /\ Invocations > 0
                /\ ~last.rejected
                /\ ~AsksRetry(last)
                /\ result[1] = Returned(last.response)
             \/ /\ Invocations > 0
                /\ last.rejected
                /\ last.hasResponse
                /\ ~AsksRetry(last)
                /\ result[1] = Returned(last.response)
             \/ /\ Invocations > 0
                /\ last.rejected
                /\ ~last.hasResponse
                /\ result[1] = Thrown(last.cause)

\* C30: when every call of the fetcher completes, a top-level retryer call
\* finishes after at most N + 1 invocations, the attempt index going up by
\* one per retry, and ends in exactly one of: a returned response, NO_TOKENS,
\* MAX_RETRY, or the fetcher's response-less fault passed on.
C30_BoundedTermination ==
  /\ [] C30_Outcome
  /\ (pc[1] = "awaiting") ~> (pc[1] = "done")

\* A rate-limited response, a bad-credential fault, then a network fault.
C30_Witness ==
  /\ RETRIES = 3
  /\ pc[1] = "done"
  /\ Invocations = 3
  /\ settled[1] = <<Resolved(RespRateLimited), Rejected("AxiosError401", Resp401),
                    NetworkFault("ECONNRESET")>>
  /\ result[1] = Thrown("ECONNRESET")

====
